---------------------------- MODULE Spec2Model ----------------------------
(***************************************************************************)
(* Model of the fractal explorer's core: system morphing                   *)
(* (core/morphing.ts), the chaos-game samplers (core/chaosGame.ts) and the *)
(* two-pass accumulation renderer (hooks/useFractalRenderer.ts).           *)
(*                                                                         *)
(* JavaScript numbers are modelled as extended rationals: a record         *)
(* [n, d] in lowest terms with d > 0 is the number n/d, [n |-> 1, d |-> 0] *)
(* is +Infinity, [n |-> -1, d |-> 0] is -Infinity and [n |-> 0, d |-> 0]   *)
(* is NaN.  Division by zero, Infinity - Infinity and 0 * Infinity behave  *)
(* as IEEE-754 prescribes; finite results are exact, except the square     *)
(* roots and the orbit of the affine sampler, which are rounded.            *)
(***************************************************************************)
EXTENDS Integers, Sequences, FiniteSets, TLC

(***************************************************************************)
(* Bounds of the model.                                                    *)
(***************************************************************************)
\* longest map / transform list of an input system
MaxMaps == 2
\* the morph parameter t ranges over k / TDen
TDen == 2

(***************************************************************************)
(* JavaScript number arithmetic.                                           *)
(***************************************************************************)
Abs(i) == IF i < 0 THEN -i ELSE i

Sign(i) == IF i < 0 THEN -1 ELSE IF i > 0 THEN 1 ELSE 0

RECURSIVE GCD(_, _)
GCD(a, b) == IF b = 0 THEN a ELSE GCD(b, a % b)

Rat(n, d) == [n |-> n, d |-> d]

Norm(n, d) ==
  IF d = 0 THEN Rat(Sign(n), 0)
  ELSE LET g == GCD(Abs(n), Abs(d))
           s == IF d < 0 THEN -1 ELSE 1
       IN  Rat((s * n) \div g, (s * d) \div g)

Num(i) == Rat(i, 1)

NaN == Rat(0, 0)

IsNaN(a) == a.d = 0 /\ a.n = 0

isFinite(a) == a.d # 0

IsZero(a) == a.d # 0 /\ a.n = 0

\* a + b
NumAdd(a, b) ==
  IF isFinite(a) /\ isFinite(b) THEN Norm(a.n * b.d + b.n * a.d, a.d * b.d)
  ELSE IF IsNaN(a) \/ IsNaN(b) THEN NaN
  ELSE IF ~isFinite(a) /\ ~isFinite(b) THEN (IF a.n = b.n THEN a ELSE NaN)
  ELSE IF isFinite(a) THEN b ELSE a

NumNeg(a) == Rat(-a.n, a.d)

\* a - b
NumSub(a, b) == NumAdd(a, NumNeg(b))

\* a * b
NumMul(a, b) ==
  IF isFinite(a) /\ isFinite(b) THEN Norm(a.n * b.n, a.d * b.d)
  ELSE IF IsNaN(a) \/ IsNaN(b) THEN NaN
  ELSE IF IsZero(a) \/ IsZero(b) THEN NaN
  ELSE Rat(Sign(a.n) * Sign(b.n), 0)

\* a / b
NumDiv(a, b) ==
  IF IsNaN(a) \/ IsNaN(b) THEN NaN
  ELSE IF isFinite(b) /\ ~IsZero(b)
       THEN (IF isFinite(a) THEN Norm(a.n * b.d, a.d * b.n)
             ELSE Rat(Sign(a.n) * Sign(b.n), 0))
  ELSE IF IsZero(b)
       THEN (IF IsZero(a) THEN NaN ELSE Rat(Sign(a.n), 0))
  ELSE IF isFinite(a) THEN Num(0) ELSE NaN

\* a < b  (false when either side is NaN)
NumLess(a, b) ==
  /\ ~IsNaN(a) /\ ~IsNaN(b)
  /\ IF isFinite(a) /\ isFinite(b) THEN a.n * b.d < b.n * a.d
     ELSE IF ~isFinite(a) /\ ~isFinite(b) THEN a.n < b.n
     ELSE IF isFinite(a) THEN b.n > 0 ELSE a.n < 0

\* a === b  (false when either side is NaN)
NumEq(a, b) == ~IsNaN(a) /\ ~IsNaN(b) /\ a = b

NumMax(a, b) == IF IsNaN(a) \/ IsNaN(b) THEN NaN ELSE IF NumLess(a, b) THEN b ELSE a

NumMin(a, b) == IF IsNaN(a) \/ IsNaN(b) THEN NaN ELSE IF NumLess(b, a) THEN b ELSE a

RECURSIVE SumSeq(_)
\* array.reduce((sum, v) => sum + v, 0)
SumSeq(s) == IF s = <<>> THEN Num(0)
             ELSE NumAdd(SumSeq(SubSeq(s, 1, Len(s) - 1)), s[Len(s)])

(***************************************************************************)
(* State.                                                                  *)
(***************************************************************************)
VARIABLES
  \* a morph call (core/morphing.ts)
  morphPc,    \* "idle" | "ifs" | "flame": which morph call has just returned
  morphArgs,  \* [a, b, t]: the arguments of that call (input systems as passed)
  morphOut,   \* the system the call returned
  heap,       \* the map / transform objects the call read and created, by address
  \* a weighted map selection (core/chaosGame.ts)
  selPc,      \* "idle" | "affine" | "flame" | "mobius": which selector has just returned
  selArgs,    \* [list, rand]: the map list and the value Math.random() returned
  selOut,     \* the position in the list (from 1) of the map the selector returned
  \* a generate*PointBatch call and the generator it drives (core/chaosGame.ts)
  gPc,        \* "idle" | "burn" | "emit" | "returned" | "uploaded"
  gSys,       \* the system being sampled
  gCount,     \* the count argument
  gI,         \* the loop counter i of the running loop
  gPos,       \* the orbit position <<x, y>>
  gColorIndex,\* the running colour index of the flame sampler
  gLast,      \* what the last emit-loop iteration did
  gSkipped,   \* how many emit-loop iterations took the `continue` of the guard
  positions,  \* the positions array of the batch
  colors,     \* the colors array of the batch
  posIndex,   \* the batch's write position into positions
  colorIndex, \* the batch's write position into colors
  points3D,   \* the vertex array the renderer uploads for the batch
  \* the renderer hook (hooks/useFractalRenderer.ts)
  config,     \* the configuration the component passes to the hook on this render
  mounted,    \* whether the hook's effects have run (the component is mounted)
  rs,         \* the hook's refs, the closure of its render loop and the GPU buffers
  rStep,      \* what the last render of the component changed in the configuration
  frameBudget, \* how many frames a run lets the render loop play
  \* the 2D canvas component around the hook (components/FractalCanvas2D)
  canvas      \* its state hooks, the pan and zoom its parent holds, the last
              \* onPanChange report, and what the current drag has added up

morphVars == <<morphPc, morphArgs, morphOut, heap>>

selVars == <<selPc, selArgs, selOut>>

samplerVars == <<gPc, gSys, gCount, gI, gPos, gColorIndex, gLast, gSkipped,
                 positions, colors, posIndex, colorIndex, points3D>>

renderVars == <<config, mounted, rs, rStep, frameBudget, canvas>>

vars == <<morphVars, selVars, samplerVars, renderVars>>

(***************************************************************************)
(* System morphing (core/morphing.ts).                                     *)
(***************************************************************************)
\* the interpolation with its end points exchanged
lerp_Swapped(a, b, t) == NumAdd(b, NumMul(NumSub(a, b), t))

\* a + (b - a) * t
lerp(a, b, t) == NumAdd(a, NumMul(NumSub(b, a), t))

\* an optional field is the empty sequence when undefined
Undefined == <<>>

IsDefined(opt) == opt # <<>>

lerpAffineMap(mapA, mapB, t) ==
  [ matrix      |-> [k \in 1..4 |-> lerp(mapA.matrix[k], mapB.matrix[k], t)],
    translation |-> [k \in 1..2 |-> lerp(mapA.translation[k], mapB.translation[k], t)],
    probability |-> lerp(mapA.probability, mapB.probability, t),
    color       |-> IF IsDefined(mapA.color) /\ IsDefined(mapB.color)
                    THEN [k \in 1..3 |-> lerp(mapA.color[k], mapB.color[k], t)]
                    ELSE Undefined ]

clampT_Unclamped(t) == t

\* Math.max(0, Math.min(1, t))
clampT(t) == NumMax(Num(0), NumMin(Num(1), t))

IntMax(a, b) == IF a > b THEN a ELSE b

ElementOrLast_First(list, i) == IF i <= Len(list) THEN list[i] ELSE list[1]

\* list[i] || list[list.length - 1]   (i counted from 1 here)
ElementOrLast(list, i) == IF i <= Len(list) THEN list[i] ELSE list[Len(list)]

\* maps.reduce((sum, map) => sum + map.probability, 0)
totalProbOf(maps) == SumSeq([i \in 1..Len(maps) |-> maps[i].probability])

\* maps.forEach(map => map.probability /= totalProb)
normalizeProbabilities(maps) ==
  LET totalProb == totalProbOf(maps)
  IN  [i \in 1..Len(maps) |->
         [maps[i] EXCEPT !.probability = NumDiv(@, totalProb)]]

OrDefault(opt, default) == IF IsDefined(opt) THEN opt[1] ELSE default

morphIFSSystems(systemA, systemB, tIn) ==
  LET t       == clampT(tIn)
      maxMaps == IntMax(Len(systemA.maps), Len(systemB.maps))
      maps    == [i \in 1..maxMaps |->
                    lerpAffineMap(ElementOrLast(systemA.maps, i),
                                  ElementOrLast(systemB.maps, i), t)]
      scaleA  == OrDefault(systemA.scale, Num(1))
      scaleB  == OrDefault(systemB.scale, Num(1))
      centerA == OrDefault(systemA.center, <<Num(0), Num(0)>>)
      centerB == OrDefault(systemB.center, <<Num(0), Num(0)>>)
  IN  [ name   |-> systemA.name \o " -> " \o systemB.name,
        maps   |-> normalizeProbabilities(maps),
        scale  |-> <<lerp(scaleA, scaleB, t)>>,
        center |-> <<[k \in 1..2 |-> lerp(centerA[k], centerB[k], t)]>> ]

(***************************************************************************)
(* Flame morphing (core/morphing.ts, second half).                         *)
(***************************************************************************)
lerpCoefs(a, b, t) == [k \in 1..6 |-> lerp(a[k], b[k], t)]

lerpColor(a, b, t) == [k \in 1..3 |-> lerp(a[k], b[k], t)]

\* a variation below this lerped weight is left out of the morphed transform
WeightThreshold == Rat(1, 1000)

RECURSIVE AddTypes(_, _)
\* vars.forEach(v => allTypes.add(v.type)): a Set keeps first-insertion order
AddTypes(types, variations) ==
  IF variations = <<>> THEN types
  ELSE AddTypes(IF \E k \in 1..Len(types) : types[k] = Head(variations).type
                THEN types ELSE Append(types, Head(variations).type),
                Tail(variations))

\* vars.find(v => v.type === type): the first match, or undefined
FindVariation(variations, type) ==
  IF \E k \in 1..Len(variations) : variations[k].type = type
  THEN <<variations[CHOOSE k \in 1..Len(variations) :
                      /\ variations[k].type = type
                      /\ \A j \in 1..(k - 1) : variations[j].type # type]>>
  ELSE Undefined

\* params of an optional variation: var?.params
ParamsOf(optVar) == IF IsDefined(optVar) THEN optVar[1].params ELSE Undefined

\* var?.params?.[key] ?? 0
ParamOr0(optParams, key) ==
  IF IsDefined(optParams) /\ key \in DOMAIN optParams[1] THEN optParams[1][key] ELSE Num(0)

KeysOf(optParams) == IF IsDefined(optParams) THEN DOMAIN optParams[1] ELSE {}

lerpOneVariation(varsA, varsB, type, t) ==
  LET varA    == FindVariation(varsA, type)
      varB    == FindVariation(varsB, type)
      weightA == IF IsDefined(varA) THEN varA[1].weight ELSE Num(0)
      weightB == IF IsDefined(varB) THEN varB[1].weight ELSE Num(0)
      pA      == ParamsOf(varA)
      pB      == ParamsOf(varB)
      params  == IF IsDefined(pA) \/ IsDefined(pB)
                 THEN <<[key \in KeysOf(pA) \cup KeysOf(pB) |->
                           lerp(ParamOr0(pA, key), ParamOr0(pB, key), t)]>>
                 ELSE Undefined
  IN  [type |-> type, weight |-> lerp(weightA, weightB, t), params |-> params]

isSignificant_Inclusive(weight) == ~NumLess(weight, WeightThreshold)

\* weight > 0.001
isSignificant(weight) == NumLess(WeightThreshold, weight)

RECURSIVE KeepSignificant(_)
\* if (weight > 0.001) result.push(...)
KeepSignificant(variations) ==
  IF variations = <<>> THEN <<>>
  ELSE IF isSignificant(Head(variations).weight)
       THEN <<Head(variations)>> \o KeepSignificant(Tail(variations))
       ELSE KeepSignificant(Tail(variations))

lerpVariations(varsA, varsB, t) ==
  LET allTypes == AddTypes(AddTypes(<<>>, varsA), varsB)
  IN  KeepSignificant([k \in 1..Len(allTypes) |->
                         lerpOneVariation(varsA, varsB, allTypes[k], t)])

IdentityCoefs == <<Num(1), Num(0), Num(0), Num(1), Num(0), Num(0)>>

lerpFlameTransform(transformA, transformB, t) ==
  [ coefs       |-> lerpCoefs(transformA.coefs, transformB.coefs, t),
    variations  |-> lerpVariations(transformA.variations, transformB.variations, t),
    probability |-> lerp(transformA.probability, transformB.probability, t),
    colorIndex  |-> lerp(transformA.colorIndex, transformB.colorIndex, t),
    colorSpeed  |-> <<lerp(OrDefault(transformA.colorSpeed, Rat(1, 2)),
                           OrDefault(transformB.colorSpeed, Rat(1, 2)), t)>>,
    post        |-> IF IsDefined(transformA.post) \/ IsDefined(transformB.post)
                    THEN <<lerpCoefs(OrDefault(transformA.post, IdentityCoefs),
                                     OrDefault(transformB.post, IdentityCoefs), t)>>
                    ELSE Undefined ]

\* the palette morphFlameSystems falls back to
defaultPalette ==
  << <<Num(0), Num(0), Num(0)>>, <<Num(1), Rat(1, 2), Num(0)>>,
     <<Num(1), Num(1), Rat(1, 2)>>, <<Num(1), Num(1), Num(1)>> >>

\* Math.floor of a finite number
Floor(a) == a.n \div a.d

IntMin(a, b) == IF a < b THEN a ELSE b

\* palettes of two or more control points on the longer side
lerpPalette(paletteA, paletteB, t) ==
  LET maxLen == IntMax(Len(paletteA), Len(paletteB))
      colorAt(palette, i) ==
        LET pos  == NumMul(NumDiv(Num(i), Num(maxLen - 1)), Num(Len(palette) - 1))
            idx  == Floor(pos)
            frac == NumSub(pos, Num(idx))
        IN  lerpColor(palette[IntMin(idx, Len(palette) - 1) + 1],
                      palette[IntMin(idx + 1, Len(palette) - 1) + 1], frac)
  IN  [i \in 1..maxLen |->
         lerpColor(colorAt(paletteA, i - 1), colorAt(paletteB, i - 1), t)]

\* lerpPalette reads an undefined control point, whose component access
\* throws a TypeError: a position i / (maxLen - 1) * (palette.length - 1)
\* that is NaN gives the index Math.min(NaN, .) = NaN, and palette[NaN] is
\* undefined
lerpPaletteThrows(paletteA, paletteB) ==
  LET maxLen == IntMax(Len(paletteA), Len(paletteB))
      pos(palette, i) == NumMul(NumDiv(Num(i), Num(maxLen - 1)), Num(Len(palette) - 1))
  IN  \E i \in 0..(maxLen - 1) : IsNaN(pos(paletteA, i)) \/ IsNaN(pos(paletteB, i))

defaultFinal ==
  [ coefs |-> IdentityCoefs,
    variations |-> <<[type |-> "Linear", weight |-> Num(1), params |-> Undefined]>>,
    probability |-> Num(1),
    colorIndex |-> Rat(1, 2),
    colorSpeed |-> Undefined,
    post |-> Undefined ]

morphFlameSystems(systemA, systemB, tIn) ==
  LET t             == clampT(tIn)
      maxTransforms == IntMax(Len(systemA.transforms), Len(systemB.transforms))
      transforms    == [i \in 1..maxTransforms |->
                          lerpFlameTransform(ElementOrLast(systemA.transforms, i),
                                             ElementOrLast(systemB.transforms, i), t)]
      scaleA  == OrDefault(systemA.scale, Rat(1, 2))
      scaleB  == OrDefault(systemB.scale, Rat(1, 2))
      centerA == OrDefault(systemA.center, <<Num(0), Num(0)>>)
      centerB == OrDefault(systemB.center, <<Num(0), Num(0)>>)
      rotateA == OrDefault(systemA.rotate, Num(0))
      rotateB == OrDefault(systemB.rotate, Num(0))
      paletteA == OrDefault(systemA.palette, defaultPalette)
      paletteB == OrDefault(systemB.palette, defaultPalette)
  IN  [ name           |-> systemA.name \o " -> " \o systemB.name,
        transforms     |-> normalizeProbabilities(transforms),
        finalTransform |->
          IF IsDefined(systemA.finalTransform) \/ IsDefined(systemB.finalTransform)
          THEN <<lerpFlameTransform(OrDefault(systemA.finalTransform, defaultFinal),
                                    OrDefault(systemB.finalTransform, defaultFinal), t)>>
          ELSE Undefined,
        scale   |-> <<lerp(scaleA, scaleB, t)>>,
        center  |-> <<[k \in 1..2 |-> lerp(centerA[k], centerB[k], t)]>>,
        rotate  |-> <<lerp(rotateA, rotateB, t)>>,
        palette |-> <<lerpPalette(paletteA, paletteB, t)>> ]

(***************************************************************************)
(* Inputs of the morph calls.                                              *)
(***************************************************************************)
\* two affine maps that differ in every numeric field; only the first is coloured
AffineShapes ==
  << [matrix |-> <<Num(1), Num(0), Num(0), Num(1)>>,
      translation |-> <<Num(0), Num(2)>>,
      color |-> <<Num(1), Num(0), Rat(1, 2)>>],
     [matrix |-> <<Rat(1, 2), Num(-1), Num(1), Rat(1, 2)>>,
      translation |-> <<Num(-1), Num(1)>>,
      color |-> Undefined] >>

AffineMapOf(shape, p) ==
  [matrix |-> shape.matrix, translation |-> shape.translation,
   probability |-> p, color |-> shape.color]

\* the maps input systems are built from; their probabilities (0, 1/2, 1) let a
\* system sum to 1, to less or more than 1, or to 0
AffineMaps ==
  { AffineMapOf(AffineShapes[1], Num(0)), AffineMapOf(AffineShapes[1], Rat(1, 2)),
    AffineMapOf(AffineShapes[2], Rat(1, 2)), AffineMapOf(AffineShapes[2], Num(1)) }

SeqsUpTo(S, n) == UNION { [1..k -> S] : k \in 1..n }

IFSSystemsNamed(nm, sc) ==
  { [name |-> nm, maps |-> ms, scale |-> sc, center |-> Undefined] :
      ms \in SeqsUpTo(AffineMaps, MaxMaps) }

\* t = k / TDen, from below 0 to above 1
TValues == { Norm(k, TDen) : k \in -1..(TDen + 1) }

\* two flame transforms: a plain linear one, and one with a swirl, a weak
\* linear term, its own colour speed and a post transform
FlameShapes ==
  << [coefs |-> IdentityCoefs,
      variations |-> <<[type |-> "Linear", weight |-> Num(1), params |-> Undefined]>>,
      colorIndex |-> Num(0), colorSpeed |-> Undefined, post |-> Undefined],
     [coefs |-> <<Rat(1, 2), Num(-1), Num(1), Rat(1, 2), Num(1), Num(-1)>>,
      variations |-> <<[type |-> "Swirl", weight |-> Rat(1, 2), params |-> Undefined],
                       [type |-> "Linear", weight |-> Rat(1, 1000), params |-> Undefined]>>,
      colorIndex |-> Num(1), colorSpeed |-> <<Rat(1, 4)>>,
      post |-> <<<<Num(2), Num(0), Num(0), Num(2), Num(0), Num(1)>>>>] >>

FlameTransformOf(shape, p) ==
  [coefs |-> shape.coefs, variations |-> shape.variations, probability |-> p,
   colorIndex |-> shape.colorIndex, colorSpeed |-> shape.colorSpeed, post |-> shape.post]

FlameTransforms ==
  { FlameTransformOf(FlameShapes[1], Num(0)), FlameTransformOf(FlameShapes[1], Rat(1, 2)),
    FlameTransformOf(FlameShapes[2], Num(1)) }

FlameSystemsNamed(nm, sc, fin) ==
  { [name |-> nm, transforms |-> ts, finalTransform |-> fin, scale |-> sc,
     center |-> Undefined, rotate |-> sc, palette |-> Undefined] :
      ts \in SeqsUpTo(FlameTransforms, MaxMaps) }

(***************************************************************************)
(* The morph functions at the level of objects.  The map (transform)       *)
(* objects of the two input systems sit at the addresses 1..|A| and        *)
(* |A|+1..|A|+|B|; an object literal is a new address.                     *)
(***************************************************************************)
freshAddresses_InPlace(used, n) == [i \in 1..n |-> i]

\* the addresses of the n objects the loop's lerp calls return: each is an
\* object literal
freshAddresses(used, n) == [i \in 1..n |-> used + i]

\* the loop that pushes the lerped objects, then the forEach that divides the
\* probability of every pushed object by the total
morphOnHeap(kind, listA, listB, tIn) ==
  LET t      == clampT(tIn)
      before == listA \o listB
      n      == IntMax(Len(listA), Len(listB))
      out    == freshAddresses(Len(before), n)
      size   == IntMax(Len(before), out[n])
      isOut(k) == \E i \in 1..n : out[i] = k
      lerpOne(objA, objB) == IF kind = "ifs" THEN lerpAffineMap(objA, objB, t)
                             ELSE lerpFlameTransform(objA, objB, t)
      pushed == [k \in 1..size |->
                   IF isOut(k)
                   THEN LET i == CHOOSE j \in 1..n : out[j] = k
                        IN  lerpOne(ElementOrLast(listA, i), ElementOrLast(listB, i))
                   ELSE before[k]]
      totalProb == totalProbOf([i \in 1..n |-> pushed[out[i]]])
  IN  [ objs |-> [k \in 1..size |->
                    IF isOut(k)
                    THEN [pushed[k] EXCEPT !.probability = NumDiv(@, totalProb)]
                    ELSE pushed[k]],
        a    |-> [i \in 1..Len(listA) |-> i],
        b    |-> [i \in 1..Len(listB) |-> Len(listA) + i],
        out  |-> out ]

(***************************************************************************)
(* Weighted map selection (core/chaosGame.ts).                             *)
(***************************************************************************)
\* Math.random() returns k / RandDen, 0 <= k < RandDen
RandDen == 4

RandValues == { Norm(k, RandDen) : k \in 0..(RandDen - 1) }

RECURSIVE scanCumulative(_, _, _, _)
\* for (const map of maps) { cumulative += map.probability;
\*                           if (rand < cumulative) return map; }
\* return maps[maps.length - 1];
scanCumulative(maps, rand, i, cumulative) ==
  IF i > Len(maps) THEN Len(maps)
  ELSE LET c == NumAdd(cumulative, maps[i].probability)
       IN  IF NumLess(rand, c) THEN i ELSE scanCumulative(maps, rand, i + 1, c)

RECURSIVE scanCumulative_NonStrict(_, _, _, _)
\* the scan with rand <= cumulative in place of rand < cumulative
scanCumulative_NonStrict(maps, rand, i, cumulative) ==
  IF i > Len(maps) THEN Len(maps)
  ELSE LET c == NumAdd(cumulative, maps[i].probability)
       IN  IF NumLess(rand, c) \/ NumEq(rand, c) THEN i
           ELSE scanCumulative_NonStrict(maps, rand, i + 1, c)

selectRandomMap_NonStrict(maps, rand) == scanCumulative_NonStrict(maps, rand, 1, Num(0))

selectRandomMap(maps, rand) == scanCumulative(maps, rand, 1, Num(0))

selectRandomFlameTransform(transforms, rand) == scanCumulative(transforms, rand, 1, Num(0))

selectRandomMobiusMap(maps, rand) == scanCumulative(maps, rand, 1, Num(0))

\* Moebius maps f(z) = (az + b) / (cz + d); a complex number is <<re, im>>
MobiusMapOf(a, b, c, d, p) ==
  [a |-> a, b |-> b, c |-> c, d |-> d, probability |-> p, color |-> Undefined]

Complex(re, im) == <<Num(re), Num(im)>>

MobiusMaps ==
  { MobiusMapOf(Complex(1, 0), Complex(1, 0), Complex(0, 0), Complex(1, 0), Num(0)),
    MobiusMapOf(Complex(1, 0), Complex(1, 0), Complex(0, 0), Complex(1, 0), Rat(1, 2)),
    MobiusMapOf(Complex(0, 0), Complex(1, 0), Complex(1, 0), Complex(0, 0), Num(1)) }

(***************************************************************************)
(* The flame sampler (core/chaosGame.ts) and the flame variations.         *)
(***************************************************************************)
PosInf == Rat(1, 0)

\* x' = a*x + b*y + e,  y' = c*x + d*y + f
applyAffine(x, y, coefs) ==
  << NumAdd(NumAdd(NumMul(coefs[1], x), NumMul(coefs[2], y)), coefs[5]),
     NumAdd(NumAdd(NumMul(coefs[3], x), NumMul(coefs[4], y)), coefs[6]) >>

\* What a non-linear variation may return.  The variations are built from
\* sin, cos, exp, atan2 and sqrt, which have no exact rational value: the model
\* lets each application return any of these points - one inside the guard
\* radius, one outside it with both coordinates below it, one infinite, one NaN.
WarpOutcomes ==
  { <<Num(0), Num(1)>>, <<Num(80), Num(80)>>, <<PosInf, Num(0)>>, <<NaN, NaN>> }

\* Linear is the identity; `warp` is the point a non-linear variation returns
applyVariation(type, x, y, warp) == IF type = "Linear" THEN <<x, y>> ELSE warp

RECURSIVE applyVariationsFrom(_, _, _, _, _)
\* outX += v.weight * vx; outY += v.weight * vy
applyVariationsFrom(out, x, y, variations, warp) ==
  IF variations = <<>> THEN out
  ELSE LET v  == Head(variations)
           vp == applyVariation(v.type, x, y, warp)
       IN  applyVariationsFrom(<<NumAdd(out[1], NumMul(v.weight, vp[1])),
                                 NumAdd(out[2], NumMul(v.weight, vp[2]))>>,
                               x, y, Tail(variations), warp)

applyVariations(x, y, variations, warp) ==
  applyVariationsFrom(<<Num(0), Num(0)>>, x, y, variations, warp)

applyFlameTransform(x, y, transform, warp) ==
  LET pre    == applyAffine(x, y, transform.coefs)
      warped == applyVariations(pre[1], pre[2], transform.variations, warp)
  IN  IF IsDefined(transform.post)
      THEN applyAffine(warped[1], warped[2], transform.post[1])
      ELSE warped

\* the palette flameChaosGame falls back to
defaultFlamePalette ==
  << <<Num(0), Num(0), Num(0)>>, <<Rat(1, 2), Num(0), Num(0)>>,
     <<Num(1), Rat(1, 5), Num(0)>>, <<Num(1), Rat(1, 2), Num(0)>>,
     <<Num(1), Rat(4, 5), Rat(1, 5)>>, <<Num(1), Num(1), Rat(1, 2)>>,
     <<Num(1), Num(1), Num(1)>> >>

\* a % 1 for a finite number: the fractional part, with the sign of a
Mod1(a) == Norm(Sign(a.n) * (Abs(a.n) % a.d), a.d)

clampIndex_None(i, length) == i

\* Math.min(i, palette.length - 1)
clampIndex(i, length) == IntMin(i, length - 1)

\* the two (0-based) indices samplePalette reads the palette at
paletteIndices(palette, index) ==
  LET t       == Mod1(NumAdd(Mod1(index), Num(1)))
      scaledT == NumMul(t, Num(Len(palette) - 1))
      i       == Floor(scaledT)
  IN  << clampIndex(i, Len(palette)), clampIndex(i + 1, Len(palette)) >>

samplePalette(palette, index) ==
  LET t       == Mod1(NumAdd(Mod1(index), Num(1)))
      scaledT == NumMul(t, Num(Len(palette) - 1))
      frac    == NumSub(scaledT, Num(Floor(scaledT)))
      reads   == paletteIndices(palette, index)
      c0      == palette[reads[1] + 1]
      c1      == palette[reads[2] + 1]
  IN  [k \in 1..3 |-> NumAdd(c0[k], NumMul(frac, NumSub(c1[k], c0[k])))]

\* palettes of up to MaxPalette control points, indices k / PaletteIndexDen
\* from -1 to 2
MaxPalette == 3

PaletteIndexDen == 4

\* the radius beyond which the flame orbit is re-seeded
flameEscapeRadius == 100

\* the burn-in length of flameChaosGame
flameSkipInitial == 20

\* Math.sqrt(x * x + y * y) > radius
magExceeds(x, y, radius) ==
  NumLess(Num(radius * radius), NumAdd(NumMul(x, x), NumMul(y, y)))

\* the guard that re-seeds the orbit without the non-finite test
flameDiverged_MagnitudeOnly(x, y) == magExceeds(x, y, flameEscapeRadius)

\* mag > 100 || !isFinite(x) || !isFinite(y)
flameDiverged(x, y) ==
  magExceeds(x, y, flameEscapeRadius) \/ ~isFinite(x) \/ ~isFinite(y)

\* Math.random() * 2 - 1
seedCoord(rand) == NumSub(NumMul(rand, Num(2)), Num(1))

\* the values of Math.random() the seeding draws take: 0 and 3/4
SeedDraws == { Num(0), Rat(3, 4) }

\* system.rotate is counted in quarter turns: cos and sin are exact
cosOf(rotate) == Num(<<1, 0, -1, 0>>[(rotate.n % 4) + 1])

sinOf(rotate) == Num(<<0, 1, 0, -1>>[(rotate.n % 4) + 1])

\* colour index after a burn-in iteration
burnInColorIndex(ci, transform) ==
  LET colorSpeed == OrDefault(transform.colorSpeed, Rat(1, 2))
  IN  NumAdd(NumMul(NumAdd(ci, transform.colorIndex), colorSpeed),
             NumMul(NumSub(Num(1), colorSpeed), ci))

\* colour index after an emit-loop iteration
emitColorIndex(ci, transform) ==
  LET colorSpeed == OrDefault(transform.colorSpeed, Rat(1, 2))
  IN  NumAdd(NumMul(transform.colorIndex, colorSpeed),
             NumMul(NumSub(Num(1), colorSpeed), ci))

\* the flame systems the sampler is run on: one whose only transform triples
\* the point (it leaves the guard radius every few steps) and pulls the colour
\* index towards 1 at the default colour speed, and one with a
\* non-linear transform, a final transform, a rotation, a scale, a centre and
\* a palette of its own
FlameSamplerSystems ==
  { [ name |-> "Grow",
      transforms |->
        << [coefs |-> <<Num(3), Num(0), Num(0), Num(3), Num(0), Num(0)>>,
            variations |-> <<[type |-> "Linear", weight |-> Num(1), params |-> Undefined]>>,
            probability |-> Num(1), colorIndex |-> Num(1),
            colorSpeed |-> Undefined, post |-> Undefined] >>,
      finalTransform |-> Undefined, scale |-> Undefined, center |-> Undefined,
      rotate |-> Undefined, palette |-> Undefined ],
    [ name |-> "Warp",
      transforms |->
        << [coefs |-> IdentityCoefs,
            variations |-> <<[type |-> "Linear", weight |-> Num(1), params |-> Undefined]>>,
            probability |-> Rat(1, 2), colorIndex |-> Num(1),
            colorSpeed |-> <<Num(0)>>, post |-> Undefined],
           [coefs |-> IdentityCoefs,
            variations |-> <<[type |-> "Exponential", weight |-> Num(1),
                              params |-> Undefined]>>,
            probability |-> Rat(1, 2), colorIndex |-> Num(0),
            colorSpeed |-> <<Num(1)>>, post |-> Undefined] >>,
      finalTransform |->
        << [coefs |-> <<Num(-1), Num(0), Num(0), Num(-1), Num(0), Num(0)>>,
            variations |-> <<[type |-> "Linear", weight |-> Num(1), params |-> Undefined]>>,
            probability |-> Num(1), colorIndex |-> Rat(1, 2),
            colorSpeed |-> Undefined, post |-> Undefined] >>,
      scale |-> <<Num(2)>>, center |-> <<<<Num(1), Num(0)>>>>,
      rotate |-> <<Num(1)>>,
      palette |-> << << <<Num(0), Num(0), Num(1)>>, <<Num(1), Num(0), Num(0)>> >> >> ] }

\* largest count a batch is asked for
MaxCount == 2

\* new Float32Array(n): n zeros
zeros(n) == [k \in 1..n |-> Num(0)]

NoLast == [has |-> FALSE, moved |-> <<Num(0), Num(0)>>, yielded |-> FALSE,
           point |-> <<Num(0), Num(0)>>]

(***************************************************************************)
(* The Moebius sampler (part_004: applyMobius, mobiusChaosGame).            *)
(***************************************************************************)
RECURSIVE isqrtIter(_, _)
\* Newton's iteration for the integer square root
isqrtIter(n, x) ==
  LET y == (x + n \div x) \div 2
  IN  IF y >= x THEN x ELSE isqrtIter(n, y)

\* the largest integer whose square is at most n
ISqrt(n) == IF n = 0 THEN 0 ELSE isqrtIter(n, n)

\* the smallest integer whose square is at least n
CeilSqrt(n) == LET r == ISqrt(n) IN IF r * r = n THEN r ELSE r + 1

\* the smallest integer at least n / d
CeilDiv(n, d) == (n + d - 1) \div d

\* k rounded up to two significant digits
RoundUpTwoDigits(k) ==
  IF k < 100 THEN k
  ELSE IF k < 1000 THEN CeilDiv(k, 10) * 10
  ELSE IF k < 10000 THEN CeilDiv(k, 100) * 100
  ELSE CeilDiv(k, 1000) * 1000

\* Math.sqrt.  The root of a square of rationals is exact; any other root is
\* irrational and is rounded up to two significant digits, which decides
\* `mag > 10` as the exact root does.
mathSqrt(q) ==
  IF IsNaN(q) THEN NaN
  ELSE IF ~isFinite(q) THEN (IF q.n > 0 THEN q ELSE NaN)
  ELSE IF q.n < 0 THEN NaN
  ELSE LET rn == ISqrt(q.n)
           rd == ISqrt(q.d)
       IN  IF rn * rn = q.n /\ rd * rd = q.d THEN Norm(rn, rd)
           ELSE IF q.n >= 100 * q.d
                THEN Num(RoundUpTwoDigits(CeilSqrt(CeilDiv(q.n, q.d))))
           ELSE IF q.n >= q.d
                THEN Norm(CeilSqrt(CeilDiv(100 * q.n, q.d)), 10)
           ELSE Norm(CeilSqrt(CeilDiv(10000 * q.n, q.d)), 100)

complexMul(a, b) ==
  << NumSub(NumMul(a[1], b[1]), NumMul(a[2], b[2])),
     NumAdd(NumMul(a[1], b[2]), NumMul(a[2], b[1])) >>

complexAdd(a, b) == << NumAdd(a[1], b[1]), NumAdd(a[2], b[2]) >>

\* what complexDiv returns instead of dividing
mobiusSentinel == 1000

\* denom < 1e-10.  Every positive number of the model is a ratio of 32-bit
\* integers and so is above 1e-10: the test is true of 0, of the negative
\* numbers and of -Infinity only.
belowDenomFloor(denom) ==
  /\ ~IsNaN(denom)
  /\ IF isFinite(denom) THEN denom.n <= 0 ELSE denom.n < 0

complexDiv_NoFloor(a, b) ==
  LET denom == NumAdd(NumMul(b[1], b[1]), NumMul(b[2], b[2]))
  IN  << NumDiv(NumAdd(NumMul(a[1], b[1]), NumMul(a[2], b[2])), denom),
         NumDiv(NumSub(NumMul(a[2], b[1]), NumMul(a[1], b[2])), denom) >>

complexDiv(a, b) ==
  LET denom == NumAdd(NumMul(b[1], b[1]), NumMul(b[2], b[2]))
  IN  IF belowDenomFloor(denom)
      THEN << Num(mobiusSentinel), Num(mobiusSentinel) >>
      ELSE << NumDiv(NumAdd(NumMul(a[1], b[1]), NumMul(a[2], b[2])), denom),
              NumDiv(NumSub(NumMul(a[2], b[1]), NumMul(a[1], b[2])), denom) >>

\* f(z) = (az + b) / (cz + d)
applyMobius(z, map) ==
  complexDiv(complexAdd(complexMul(map.a, z), map.b),
             complexAdd(complexMul(map.c, z), map.d))

\* the magnitude above which the orbit is pulled back
mobiusBound == 10

\* the magnitude the orbit is pulled back to
mobiusPullBack == 2

mobiusSkipInitial == 100

\* Math.sqrt(z[0] * z[0] + z[1] * z[1])
magnitude(z) == mathSqrt(NumAdd(NumMul(z[1], z[1]), NumMul(z[2], z[2])))

keepInBounds_Never(z) == z

\* if (mag > 10) z = [z[0] / mag * 2, z[1] / mag * 2]
keepInBounds(z) ==
  LET mag == magnitude(z)
  IN  IF NumLess(Num(mobiusBound), mag)
      THEN << NumMul(NumDiv(z[1], mag), Num(mobiusPullBack)),
              NumMul(NumDiv(z[2], mag), Num(mobiusPullBack)) >>
      ELSE z

mobiusYields_Always(z) == TRUE

\* isFinite(z[0]) && isFinite(z[1])
mobiusYields(z) == isFinite(z[1]) /\ isFinite(z[2])

\* the values of Math.random() the Moebius seeding draws take: 1/2 and 3/4
MobiusSeedDraws == { Rat(1, 2), Rat(3, 4) }

White == << Num(1), Num(1), Num(1) >>

\* Two systems.  "Invert": the inversion 1/z, coloured, and the half turn
\* -z; the inversion has its pole at the seed 0.  "Overflow": the dilation
\* 8z and a translation whose coefficient is past the largest number (the
\* product or sum overflows to Infinity); it carries a scale and a center.
MobiusSamplerSystems ==
  { [ name |-> "Invert",
      maps |-> << [MobiusMapOf(Complex(0, 0), Complex(1, 0), Complex(1, 0), Complex(0, 0),
                               Rat(1, 2)) EXCEPT !.color = <<White>>],
                  MobiusMapOf(Complex(-1, 0), Complex(0, 0), Complex(0, 0), Complex(1, 0),
                               Rat(1, 2)) >>,
      scale |-> Undefined, center |-> Undefined ],
    [ name |-> "Overflow",
      maps |-> << MobiusMapOf(Complex(8, 0), Complex(0, 0), Complex(0, 0), Complex(1, 0),
                               Rat(1, 2)),
                  MobiusMapOf(Complex(1, 0), <<PosInf, Num(0)>>, Complex(0, 0), Complex(1, 0),
                               Rat(1, 2)) >>,
      scale |-> <<Rat(1, 2)>>, center |-> << <<Num(1), Num(0)>> >> ] }

(***************************************************************************)
(* The affine sampler (core/chaosGame.ts: chaosGame, generatePointBatch).  *)
(***************************************************************************)
\* p' = M * p + t
applyAffineMap(x, y, map) ==
  << NumAdd(NumAdd(NumMul(map.matrix[1], x), NumMul(map.matrix[2], y)), map.translation[1]),
     NumAdd(NumAdd(NumMul(map.matrix[3], x), NumMul(map.matrix[4], y)), map.translation[2]) >>

\* the orbit of the affine sampler is kept to multiples of 1 / PrecisionDen
PrecisionDen == 20

\* A number stored in a variable is rounded to the nearest representable
\* one (a tie goes up); the model's representable numbers are the multiples
\* of 1 / PrecisionDen where floating point has those of 2^-52.
rounded(q) ==
  IF ~isFinite(q) THEN q
  ELSE Norm((2 * q.n * PrecisionDen + q.d) \div (2 * q.d), PrecisionDen)

roundedPoint(p) == << rounded(p[1]), rounded(p[2]) >>

chaosGameSkipInitial == 100

loopContinues_Inclusive(i, n) == i <= n

\* the test `i < n` of the sampler's for loops
loopContinues(i, n) == i < n

\* the values of Math.random() the affine seeding draws take
AffineSeedDraws == { Num(0), Rat(19, 20) }

\* a triangle whose corners lie outside the seed square
sierpinski_Wide ==
  [ name |-> "Sierpinski Triangle",
    maps |-> << [matrix |-> <<Rat(1, 2), Num(0), Num(0), Rat(1, 2)>>,
                 translation |-> <<Rat(-3, 5), Rat(-3, 5)>>,
                 probability |-> Rat(1, 3), color |-> Undefined],
                [matrix |-> <<Rat(1, 2), Num(0), Num(0), Rat(1, 2)>>,
                 translation |-> <<Rat(3, 5), Rat(-3, 5)>>,
                 probability |-> Rat(1, 3), color |-> Undefined],
                [matrix |-> <<Rat(1, 2), Num(0), Num(0), Rat(1, 2)>>,
                 translation |-> <<Num(0), Rat(3, 5)>>,
                 probability |-> Rat(1, 3), color |-> Undefined] >>,
    scale |-> Undefined, center |-> Undefined ]

\* the Sierpinski preset
sierpinski ==
  [ name |-> "Sierpinski Triangle",
    maps |-> << [matrix |-> <<Rat(1, 2), Num(0), Num(0), Rat(1, 2)>>,
                 translation |-> <<Rat(-2, 5), Rat(-2, 5)>>,
                 probability |-> Rat(1, 3), color |-> Undefined],
                [matrix |-> <<Rat(1, 2), Num(0), Num(0), Rat(1, 2)>>,
                 translation |-> <<Rat(2, 5), Rat(-2, 5)>>,
                 probability |-> Rat(1, 3), color |-> Undefined],
                [matrix |-> <<Rat(1, 2), Num(0), Num(0), Rat(1, 2)>>,
                 translation |-> <<Num(0), Rat(2, 5)>>,
                 probability |-> Rat(1, 3), color |-> Undefined] >>,
    scale |-> Undefined, center |-> Undefined ]

\* a two-map system, one map coloured, with a scale and a center
AffineSamplerSystems ==
  { sierpinski,
    [ name |-> "Pair",
      maps |-> << [matrix |-> <<Rat(1, 2), Num(0), Num(0), Rat(1, 2)>>,
                   translation |-> <<Num(0), Num(0)>>,
                   probability |-> Rat(1, 2),
                   color |-> << <<Num(1), Num(0), Rat(1, 2)>> >>],
                  [matrix |-> <<Num(0), Rat(1, 2), Rat(-1, 2), Num(0)>>,
                   translation |-> <<Rat(1, 2), Rat(1, 2)>>,
                   probability |-> Rat(1, 2), color |-> Undefined] >>,
      scale |-> <<Num(2)>>, center |-> << <<Rat(1, 2), Num(0)>> >> ] }

(***************************************************************************)
(* The renderer hook (hooks/useFractalRenderer.ts).                        *)
(*                                                                         *)
(* The hook's state is one record, rs: its refs (renderer, scene, camera   *)
(* and accumulation target are created together and stand behind `ready`), *)
(* the frame counter of the running render loop, and what the two render   *)
(* targets hold.  The accumulation target is described by the names of the *)
(* systems whose points were drawn into it since it was last cleared and   *)
(* by the number of frames drawn into it since then.  rs.log lists the GPU *)
(* operations of the current step in the order the code issues them.       *)
(***************************************************************************)
\* how many frames a run plays when it exercises configuration changes
ShortRun == 3

\* how many frames past the clear period a long run of the loop plays
ExtraFrames == 2

\* the period of the render loop's clear, in frames
ClearPeriod == 300

LongRun == ClearPeriod + ExtraFrames

\* system objects: a name and the identity of the object that carries it
RenderSystems == { [name |-> n, obj |-> o] : n \in {"A", "B"}, o \in 1..2 }

\* the values the optional boolean infiniteAccumulation can take
Tristate == {"true", "false", "undefined"}

\* the fields of the configuration that the effects' dependency lists and the
\* render loop read; pan enters the dependency lists exactly as zoom does and
\* maxIterations and adaptiveDetail as iterationsPerFrame does
Configs ==
  [system : RenderSystems, infiniteAccumulation : Tristate, trails : BOOLEAN,
   zoom : 1..2, iterationsPerFrame : 1..2]

FirstSystem == [name |-> "A", obj |-> 1]

\* the configurations of one system under one view
ModeConfigs ==
  { c \in Configs : c.system = FirstSystem /\ c.zoom = 1 /\ c.iterationsPerFrame = 1 }

FirstConfig ==
  [system |-> FirstSystem, infiniteAccumulation |-> "undefined", trails |-> FALSE,
   zoom |-> 1, iterationsPerFrame |-> 1]

\* the accumulation target after renderer.clear()
clearedTarget == [names |-> {}, frames |-> 0]

NoRenderer ==
  [ready |-> FALSE, autoClear |-> FALSE, points |-> <<>>, displayMesh |-> FALSE,
   uZoom |-> 0, prevSystem |-> <<>>, accum |-> clearedTarget, screen |-> {},
   frameCount |-> 0, running |-> FALSE, log |-> <<>>, dropped |-> 0,
   pending |-> {}, animationFrameRef |-> 0, disposed |-> 0,
   pointsVisible |-> FALSE, quadVisible |-> FALSE,
   accumGot |-> {}, screenGot |-> {}]

\* infinite accumulation or motion trails is active
keepsDensity(cfg) == cfg.infiniteAccumulation = "true" \/ cfg.trails

NoStep == [kind |-> "none", nameChanged |-> FALSE, onlyView |-> FALSE, keptBefore |-> FALSE]

\* the hook body starts a step: nothing has been issued to the GPU yet
beginStep(r) ==
  [r EXCEPT !.log = <<>>, !.dropped = 0, !.accumGot = {}, !.screenGot = {}]

\* renderer.setRenderTarget(accumTarget); renderer.clear()
clearAccum(r, why) ==
  [r EXCEPT !.accum = clearedTarget,
            !.log = Append(@, why),
            !.dropped = @ + r.accum.frames]

\* the effect that initializes the Three.js scene once.  The constructor
\* call passes canvas, antialias and alpha and leaves the renderer's
\* autoClear setting to the library; ac is the value the library gives it.
initEffect(r, canvasReady, ac) ==
  IF ~canvasReady THEN r
  ELSE clearAccum([r EXCEPT !.ready = TRUE, !.autoClear = ac], "clear:init")

\* the effect that creates the point cloud from a freshly generated batch
pointCloudEffect(r, cfg) ==
  IF ~r.ready THEN r
  ELSE [r EXCEPT !.points = << [system |-> cfg.system,
                                iterations |-> cfg.iterationsPerFrame] >>,
                 !.pointsVisible = TRUE,
                 !.uZoom = cfg.zoom,
                 !.log = @ \o <<"generate", "upload">>]

\* the effect that creates the display quad once
displayQuadEffect(r) ==
  IF ~r.ready THEN r ELSE [r EXCEPT !.displayMesh = TRUE, !.quadVisible = TRUE]

\* the effect that updates the uniforms
uniformsEffect(r, cfg) ==
  IF r.points # <<>> THEN [r EXCEPT !.uZoom = cfg.zoom] ELSE r

systemChanged(prev, cfg) == prev # <<>> /\ prev[1].name # cfg.system.name

shouldClearOnUpdate_ModeOnly(prev, cfg) == cfg.infiniteAccumulation = "false"

shouldClearOnUpdate(prev, cfg) ==
  systemChanged(prev, cfg) \/ cfg.infiniteAccumulation = "false"

\* the effect that clears the accumulation buffer when the system changes
\* or infinite mode is off
clearEffect(r, cfg) ==
  IF ~r.ready THEN r
  ELSE LET c == IF shouldClearOnUpdate(r.prevSystem, cfg)
                THEN clearAccum(r, "clear:update") ELSE r
       IN  [c EXCEPT !.prevSystem = <<cfg.system>>]

\* !config.infiniteAccumulation && !config.trails
loopShouldClear(cfg) == cfg.infiniteAccumulation # "true" /\ ~cfg.trails

periodicClearDue_OnlyFirst(frameCount) == frameCount = 0

periodicClearDue(frameCount) == frameCount % ClearPeriod = 0

\* the objects of the scene a renderer.render(scene, camera) draws: the
\* scene holds the point cloud and the display quad, and the visible ones
\* are drawn
visiblePrimitives(r) ==
  (IF r.points # <<>> /\ r.pointsVisible THEN {"points"} ELSE {})
    \cup (IF r.displayMesh /\ r.quadVisible THEN {"quad"} ELSE {})

showPointsOnly_Unchanged(r) == r

\* displayMesh.visible = false; points.visible = true
showPointsOnly(r) == [r EXCEPT !.quadVisible = FALSE, !.pointsVisible = TRUE]

\* displayMesh.visible = true; points.visible = false
showQuadOnly(r) == [r EXCEPT !.quadVisible = TRUE, !.pointsVisible = FALSE]

\* pass 1: renderer.render(scene, camera) into the accumulation target with
\* only the point cloud visible: the points are blended additively onto what
\* the target holds, after the renderer's own clear when autoClear is set
accumulatePass(r) ==
  LET v == showPointsOnly(r)
      base == IF v.autoClear THEN clearedTarget ELSE v.accum
  IN  [v EXCEPT !.accum = [names |-> IF "points" \in visiblePrimitives(v)
                                     THEN base.names \cup {v.points[1].system.name}
                                     ELSE base.names,
                           frames |-> base.frames + 1],
                !.accumGot = @ \cup visiblePrimitives(v),
                !.log = Append(@, "accumulate")]

\* pass 2: renderer.render(scene, camera) to the canvas with only the quad
\* visible; the quad shows the accumulation texture
displayPass(r) ==
  LET v == showQuadOnly(r)
  IN  [v EXCEPT !.screen = IF "quad" \in visiblePrimitives(v) THEN v.accum.names
                           ELSE {},
                !.screenGot = @ \cup visiblePrimitives(v),
                !.log = Append(@, "display")]

\* the id a new animation-frame request gets.  The browser never hands out
\* an id twice; the model names the new request by the smallest id that is
\* neither pending nor the one the hook has stored (0 is the ref's null).
newRequestId(r) ==
  LET free == { id \in 1..(Cardinality(r.pending) + 2) :
                  id \notin r.pending /\ id # r.animationFrameRef }
  IN  CHOOSE id \in free : \A other \in free : id <= other

\* animationFrameRef.current = requestAnimationFrame(animate)
requestAnimationFrame(r) ==
  LET id == newRequestId(r)
  IN  [r EXCEPT !.pending = @ \cup {id}, !.animationFrameRef = id]

cancelAnimationFrame_Never(r) == r

\* if (animationFrameRef.current) cancelAnimationFrame(animationFrameRef.current)
cancelAnimationFrame(r) ==
  IF r.animationFrameRef # 0 THEN [r EXCEPT !.pending = @ \ {r.animationFrameRef}]
  ELSE r

\* one call of animate: the next frame is requested before anything else
animate(r, cfg) ==
  LET s == requestAnimationFrame(r)
  IN  IF ~(s.ready /\ s.points # <<>> /\ s.displayMesh) THEN s
      ELSE LET c == IF loopShouldClear(cfg) /\ periodicClearDue(s.frameCount)
                    THEN clearAccum(s, "clear:periodic") ELSE s
           IN  [displayPass(accumulatePass(c)) EXCEPT !.frameCount = @ + 1]

\* the render-loop effect: a fresh frame counter, then the first animate()
renderLoopEffect(r, cfg) ==
  animate([r EXCEPT !.frameCount = 0, !.running = TRUE], cfg)

renderLoopCleanup_None(r) == r

\* the cleanup the render-loop effect returns
renderLoopCleanup(r) == cancelAnimationFrame(r)

\* the cleanup the initializing effect returns; the effect returns none when
\* it found no canvas
initCleanup(r) ==
  IF ~r.ready THEN r
  ELSE [cancelAnimationFrame(r) EXCEPT !.disposed = @ + 1]

\* the cleanups of the unmounting component, in the order the hook declares
\* their effects
unmountCleanups(r) == renderLoopCleanup(initCleanup(beginStep(r)))

\* the effects of the first render, in the order the hook declares them
mountEffects(r, cfg, canvasReady, ac) ==
  renderLoopEffect(
    clearEffect(
      uniformsEffect(
        displayQuadEffect(
          pointCloudEffect(initEffect(beginStep(r), canvasReady, ac), cfg)),
        cfg),
      cfg),
    cfg)

pointCloudDeps(cfg) == <<cfg.system, cfg.iterationsPerFrame, cfg.zoom>>

clearDeps(cfg) == <<cfg.system, cfg.infiniteAccumulation>>

renderLoopDeps_WholeConfig(cfg) == cfg

renderLoopDeps(cfg) == <<cfg.infiniteAccumulation, cfg.trails>>

\* the effects of a later render: each effect whose dependencies changed,
\* in the order the hook declares them, the render loop's after its cleanup
updateEffects(r, old, cfg) ==
  LET r1 == IF pointCloudDeps(old) # pointCloudDeps(cfg)
            THEN pointCloudEffect(beginStep(r), cfg) ELSE beginStep(r)
      r2 == IF old # cfg THEN uniformsEffect(r1, cfg) ELSE r1
      r3 == IF clearDeps(old) # clearDeps(cfg) THEN clearEffect(r2, cfg) ELSE r2
  IN  IF renderLoopDeps(old) # renderLoopDeps(cfg)
      THEN renderLoopEffect(renderLoopCleanup(r3), cfg) ELSE r3

(***************************************************************************)
(* The 2D canvas component: local pan and zoom, mouse handlers.            *)
(***************************************************************************)
\* the largest clientX / clientY of a mouse event
MaxMouse == 1

\* how many events a run delivers to the component
MaxEvents == 5

MousePositions == { <<x, y>> : x \in 0..MaxMouse, y \in 0..MaxMouse }

\* the pans and zooms the parent may hold when the component mounts
ParentPans == { <<Num(0), Num(0)>>, <<Num(1), Num(0)>> }

ParentZooms == { Num(1), Num(2) }

\* screen pixels per unit of pan at zoom 1
pixelsPerUnit == 200

\* the component before its first render; dragPan is the pan the current
\* drag has added up from its mouse-moves (<<>> outside a drag)
NoCanvas ==
  [step |-> "none", isDragging |-> FALSE, dragStart |-> <<0, 0>>,
   localPan |-> <<Num(0), Num(0)>>, localZoom |-> Num(1),
   parentPan |-> <<Num(0), Num(0)>>, parentZoom |-> Num(1),
   reported |-> <<>>, dragPan |-> <<>>, events |-> 0]

\* useState(config.pan), useState(config.zoom) on the first render
firstCanvas(pan, zoom) ==
  [NoCanvas EXCEPT !.step = "mount", !.localPan = pan, !.localZoom = zoom,
                   !.parentPan = pan, !.parentZoom = zoom]

\* the effect on [config]: setLocalPan(config.pan); setLocalZoom(config.zoom)
syncEffect(c) == [c EXCEPT !.localPan = c.parentPan, !.localZoom = c.parentZoom]

\* the pan after a move of (dx, dy) pixels
pannedBy(pan, zoom, dx, dy) ==
  << NumSub(pan[1], NumDiv(NumDiv(Num(dx), Num(pixelsPerUnit)), zoom)),
     NumAdd(pan[2], NumDiv(NumDiv(Num(dy), Num(pixelsPerUnit)), zoom)) >>

handleMouseDown(c, e) ==
  [c EXCEPT !.isDragging = TRUE, !.dragStart = e, !.dragPan = <<c.localPan>>]

handleMouseMove(c, e) ==
  IF ~c.isDragging THEN c
  ELSE LET dx == e[1] - c.dragStart[1]
           dy == e[2] - c.dragStart[2]
       IN  [c EXCEPT !.localPan = pannedBy(c.localPan, c.localZoom, dx, dy),
                     !.dragStart = e,
                     !.dragPan = <<pannedBy(c.dragPan[1], c.localZoom, dx, dy)>>]

\* handlePanChange of the parent: it keeps the pan and renders again, which
\* passes a new config object carrying it
handlePanChange(c, newPan) == syncEffect([c EXCEPT !.parentPan = newPan])

\* onMouseUp and onMouseLeave
handleMouseUp(c) ==
  handlePanChange([c EXCEPT !.isDragging = FALSE,
                            !.reported = <<c.localPan>>,
                            !.dragPan = IF c.isDragging THEN @ ELSE <<>>],
                  c.localPan)

(***************************************************************************)
(* Initial states.                                                         *)
(***************************************************************************)
NoSystem == [name |-> "", maps |-> <<>>, scale |-> Undefined, center |-> Undefined]

NoArgs == [a |-> NoSystem, b |-> NoSystem, t |-> Num(0)]

NoHeap == [objs |-> <<>>, a |-> <<>>, b |-> <<>>, out |-> <<>>]

MorphInit ==
  /\ morphPc = "idle"
  /\ morphArgs = NoArgs
  /\ morphOut = NoSystem
  /\ heap = NoHeap

SelInit ==
  /\ selPc = "idle"
  /\ selArgs = [list |-> <<>>, rand |-> Num(0)]
  /\ selOut = 0

NoFlameSystem ==
  [name |-> "", transforms |-> <<>>, finalTransform |-> Undefined, scale |-> Undefined,
   center |-> Undefined, rotate |-> Undefined, palette |-> Undefined]

SamplerInit ==
  /\ gPc = "idle"
  /\ gSys = NoFlameSystem
  /\ gCount = 0
  /\ gI = 0
  /\ gPos = <<Num(0), Num(0)>>
  /\ gColorIndex = Num(0)
  /\ gLast = NoLast
  /\ gSkipped = 0
  /\ positions = <<>>
  /\ colors = <<>>
  /\ posIndex = 0
  /\ colorIndex = 0
  /\ points3D = <<>>

RenderInit(configs, budget) ==
  /\ config \in configs
  /\ mounted = FALSE
  /\ rs = NoRenderer
  /\ rStep = NoStep
  /\ frameBudget = budget
  /\ canvas = NoCanvas

Init == MorphInit /\ SelInit /\ SamplerInit /\ RenderInit({FirstConfig}, ShortRun)

(***************************************************************************)
(* Morph calls.                                                            *)
(***************************************************************************)
\* a caller (App, each animation tick) morphs two affine presets
CallMorphIFS ==
  /\ morphPc = "idle"
  /\ \E a \in IFSSystemsNamed("A", Undefined),
        b \in IFSSystemsNamed("B", <<Num(2)>>),
        t \in TValues :
       /\ morphArgs' = [a |-> a, b |-> b, t |-> t]
       /\ morphOut' = morphIFSSystems(a, b, t)
       /\ heap' = morphOnHeap("ifs", a.maps, b.maps, t)
  /\ morphPc' = "ifs"
  /\ UNCHANGED <<selVars, samplerVars, renderVars>>

\* a caller morphs two flame presets
CallMorphFlame ==
  /\ morphPc = "idle"
  /\ \E a \in FlameSystemsNamed("A", Undefined, Undefined),
        b \in FlameSystemsNamed("B", <<Num(2)>>, <<defaultFinal>>),
        t \in TValues :
       /\ morphArgs' = [a |-> a, b |-> b, t |-> t]
       /\ morphOut' = morphFlameSystems(a, b, t)
       /\ heap' = morphOnHeap("flame", a.transforms, b.transforms, t)
  /\ morphPc' = "flame"
  /\ UNCHANGED <<selVars, samplerVars, renderVars>>

\* a caller morphs two flame systems that carry palettes of their own; a
\* TypeError thrown by lerpPalette leaves the caller without a result
CallMorphFlamePalette ==
  /\ morphPc = "idle"
  /\ \E pa, pb \in SeqsUpTo({<<Num(0), Num(0), Num(0)>>, <<Num(1), Rat(1, 2), Num(0)>>},
                            MaxPalette),
        t \in TValues :
       \E a \in {[name |-> "A", transforms |-> <<FlameTransformOf(FlameShapes[1], Num(1))>>,
                   finalTransform |-> Undefined, scale |-> Undefined, center |-> Undefined,
                   rotate |-> Undefined, palette |-> <<pa>>]},
          b \in {[name |-> "B", transforms |-> <<FlameTransformOf(FlameShapes[2], Num(1))>>,
                   finalTransform |-> Undefined, scale |-> Undefined, center |-> Undefined,
                   rotate |-> Undefined, palette |-> <<pb>>]} :
         /\ morphArgs' = [a |-> a, b |-> b, t |-> t]
         /\ IF lerpPaletteThrows(pa, pb)
            THEN /\ morphPc' = "threw"
                 /\ morphOut' = NoSystem
                 /\ heap' = NoHeap
            ELSE /\ morphPc' = "flame"
                 /\ morphOut' = morphFlameSystems(a, b, t)
                 /\ heap' = morphOnHeap("flame", a.transforms, b.transforms, t)
  /\ UNCHANGED <<selVars, samplerVars, renderVars>>

\* a caller morphs a system of two maps into one of three
CallMorphUnevenIFS ==
  /\ morphPc = "idle"
  /\ \E ma \in [1..2 -> AffineMaps], mb \in [1..3 -> AffineMaps], t \in TValues :
       \E a \in {[name |-> "A", maps |-> ma, scale |-> Undefined, center |-> Undefined]},
          b \in {[name |-> "B", maps |-> mb, scale |-> Undefined, center |-> Undefined]} :
         /\ morphArgs' = [a |-> a, b |-> b, t |-> t]
         /\ morphOut' = morphIFSSystems(a, b, t)
         /\ heap' = morphOnHeap("ifs", ma, mb, t)
  /\ morphPc' = "ifs"
  /\ UNCHANGED <<selVars, samplerVars, renderVars>>

\* a caller morphs a flame system of three transforms into one of two
CallMorphUnevenFlame ==
  /\ morphPc = "idle"
  /\ \E ta \in [1..3 -> FlameTransforms], tb \in [1..2 -> FlameTransforms],
        t \in TValues :
       \E a \in {[name |-> "A", transforms |-> ta, finalTransform |-> Undefined,
                   scale |-> Undefined, center |-> Undefined, rotate |-> Undefined,
                   palette |-> Undefined]},
          b \in {[name |-> "B", transforms |-> tb, finalTransform |-> Undefined,
                   scale |-> Undefined, center |-> Undefined, rotate |-> Undefined,
                   palette |-> Undefined]} :
         /\ morphArgs' = [a |-> a, b |-> b, t |-> t]
         /\ morphOut' = morphFlameSystems(a, b, t)
         /\ heap' = morphOnHeap("flame", ta, tb, t)
  /\ morphPc' = "flame"
  /\ UNCHANGED <<selVars, samplerVars, renderVars>>

\* the caller drops the result; the next call may start
MorphDone ==
  /\ morphPc # "idle"
  /\ morphPc' = "idle"
  /\ morphArgs' = NoArgs
  /\ morphOut' = NoSystem
  /\ heap' = NoHeap
  /\ UNCHANGED <<selVars, samplerVars, renderVars>>

MorphNext == CallMorphIFS \/ CallMorphFlame \/ MorphDone

SpecMorph == Init /\ [][MorphNext]_vars

SpecMorphUneven == Init /\ [][CallMorphUnevenIFS \/ CallMorphUnevenFlame \/ MorphDone]_vars

SpecMorphPalette == Init /\ [][CallMorphFlamePalette \/ MorphDone]_vars

(***************************************************************************)
(* Map selection calls.                                                    *)
(***************************************************************************)
SelectAffine ==
  /\ selPc = "idle"
  /\ \E maps \in SeqsUpTo(AffineMaps, MaxMaps), rand \in RandValues :
       /\ selArgs' = [list |-> maps, rand |-> rand]
       /\ selOut' = selectRandomMap(maps, rand)
  /\ selPc' = "affine"
  /\ UNCHANGED <<morphVars, samplerVars, renderVars>>

SelectFlame ==
  /\ selPc = "idle"
  /\ \E transforms \in SeqsUpTo(FlameTransforms, MaxMaps), rand \in RandValues :
       /\ selArgs' = [list |-> transforms, rand |-> rand]
       /\ selOut' = selectRandomFlameTransform(transforms, rand)
  /\ selPc' = "flame"
  /\ UNCHANGED <<morphVars, samplerVars, renderVars>>

SelectMobius ==
  /\ selPc = "idle"
  /\ \E maps \in SeqsUpTo(MobiusMaps, MaxMaps), rand \in RandValues :
       /\ selArgs' = [list |-> maps, rand |-> rand]
       /\ selOut' = selectRandomMobiusMap(maps, rand)
  /\ selPc' = "mobius"
  /\ UNCHANGED <<morphVars, samplerVars, renderVars>>

\* the sampler has used the map; the next draw may start
SelectDone ==
  /\ selPc # "idle"
  /\ selPc' = "idle"
  /\ selArgs' = [list |-> <<>>, rand |-> Num(0)]
  /\ selOut' = 0
  /\ UNCHANGED <<morphVars, samplerVars, renderVars>>

SelectNext == SelectAffine \/ SelectFlame \/ SelectMobius \/ SelectDone

SpecSelect == Init /\ [][SelectNext]_vars

(***************************************************************************)
(* A call of samplePalette.                                                *)
(***************************************************************************)
\* the colour is the value returned; reading past the palette gives
\* undefined, whose component access throws (no colour is returned)
CallSamplePalette ==
  /\ selPc = "idle"
  /\ \E palette \in SeqsUpTo({<<Num(0), Num(0), Num(0)>>, <<Num(1), Rat(1, 2), Num(0)>>},
                             MaxPalette),
        k \in (0 - PaletteIndexDen)..(2 * PaletteIndexDen) :
       \E index \in {Norm(k, PaletteIndexDen)} :
         \E reads \in {paletteIndices(palette, index)} :
           /\ selArgs' = [list |-> palette, rand |-> index]
           /\ selOut' = [reads |-> reads,
                         color |-> IF /\ reads[1] + 1 \in DOMAIN palette
                                      /\ reads[2] + 1 \in DOMAIN palette
                                   THEN samplePalette(palette, index)
                                   ELSE <<>>]
  /\ selPc' = "palette"
  /\ UNCHANGED <<morphVars, samplerVars, renderVars>>

SpecPalette == Init /\ [][CallSamplePalette \/ SelectDone]_vars

(***************************************************************************)
(* generateFlamePointBatch driving flameChaosGame, and the renderer's      *)
(* upload of the batch.                                                    *)
(***************************************************************************)
\* generateFlamePointBatch(system, count) allocates the arrays and creates
\* the generator, which seeds the orbit and the colour index
StartFlameBatch ==
  /\ gPc = "idle"
  /\ \E system \in FlameSamplerSystems, count \in 1..MaxCount,
        sx \in SeedDraws, sy \in SeedDraws, sc \in SeedDraws :
       /\ gSys' = system
       /\ gCount' = count
       /\ positions' = zeros(count * 2)
       /\ colors' = zeros(count * 3)
       /\ gPos' = <<seedCoord(sx), seedCoord(sy)>>
       /\ gColorIndex' = sc
  /\ posIndex' = 0
  /\ colorIndex' = 0
  /\ gI' = 0
  /\ gLast' = NoLast
  /\ gSkipped' = 0
  /\ points3D' = <<>>
  /\ gPc' = "burn"
  /\ UNCHANGED <<morphVars, selVars, renderVars>>

\* the fresh points a re-seed may draw
SeedPoints == { <<seedCoord(sx), seedCoord(sy)>> : sx \in SeedDraws, sy \in SeedDraws }

\* one iteration of the burn-in loop
FlameBurnIn ==
  /\ gPc = "burn"
  /\ gI < flameSkipInitial
  /\ \E rand \in RandValues, warp \in WarpOutcomes :
       \E transform \in {gSys.transforms[selectRandomFlameTransform(gSys.transforms, rand)]} :
         \E moved \in {applyFlameTransform(gPos[1], gPos[2], transform, warp)} :
           /\ gColorIndex' = burnInColorIndex(gColorIndex, transform)
           /\ IF flameDiverged(moved[1], moved[2])
              THEN gPos' \in SeedPoints
              ELSE gPos' = moved
  /\ IF gI + 1 < flameSkipInitial
     THEN gI' = gI + 1 /\ gPc' = "burn"
     ELSE gI' = 0 /\ gPc' = "emit"
  /\ UNCHANGED <<gSys, gCount, gLast, gSkipped,
                 positions, colors, posIndex, colorIndex, points3D>>
  /\ UNCHANGED <<morphVars, selVars, renderVars>>

\* positions[posIndex++] = v, as a typed array does it: a write past the end
\* is dropped
store(array, index, v) ==
  IF index + 1 \in DOMAIN array THEN [array EXCEPT ![index + 1] = v] ELSE array

\* the transform chain of one emit-loop iteration: the selected transform,
\* then the system's final transform when it has one
emitMove(system, transform, pos, warp) ==
  LET applied == applyFlameTransform(pos[1], pos[2], transform, warp)
  IN  IF IsDefined(system.finalTransform)
      THEN applyFlameTransform(applied[1], applied[2], system.finalTransform[1], warp)
      ELSE applied

\* the global rotation applied to a point that is yielded
rotated(system, moved) ==
  LET rotate == OrDefault(system.rotate, Num(0))
  IN  << NumSub(NumMul(moved[1], cosOf(rotate)), NumMul(moved[2], sinOf(rotate))),
         NumAdd(NumMul(moved[1], sinOf(rotate)), NumMul(moved[2], cosOf(rotate))) >>

\* (pos - center) * scale, for both coordinates
normalized(system, point, defaultScale) ==
  LET scale  == OrDefault(system.scale, defaultScale)
      center == OrDefault(system.center, <<Num(0), Num(0)>>)
  IN  << NumMul(NumSub(point[1], center[1]), scale),
         NumMul(NumSub(point[2], center[2]), scale) >>

\* one iteration of the emit loop, and the body of the batch's for-of loop
\* for the point it yields
FlameEmit ==
  /\ gPc = "emit"
  /\ gI < gCount
  /\ \E rand \in RandValues, warp \in WarpOutcomes :
       \E transform \in {gSys.transforms[selectRandomFlameTransform(gSys.transforms, rand)]} :
         \E moved \in {emitMove(gSys, transform, gPos, warp)},
            ci \in {emitColorIndex(gColorIndex, transform)} :
           /\ gColorIndex' = ci
           /\ IF flameDiverged(moved[1], moved[2])
              THEN /\ gPos' \in SeedPoints
                   /\ gLast' = [has |-> TRUE, moved |-> moved, yielded |-> FALSE,
                                point |-> <<Num(0), Num(0)>>]
                   /\ gSkipped' = gSkipped + 1
                   /\ UNCHANGED <<positions, colors, posIndex, colorIndex>>
              ELSE \E point \in {rotated(gSys, moved)} :
                   \E pos \in {normalized(gSys, point, Rat(1, 2))},
                      color \in {samplePalette(OrDefault(gSys.palette, defaultFlamePalette),
                                               ci)} :
                   /\ gPos' = moved
                   /\ gLast' = [has |-> TRUE, moved |-> moved, yielded |-> TRUE,
                                point |-> point]
                   /\ UNCHANGED gSkipped
                   /\ positions' = store(store(positions, posIndex, pos[1]),
                                         posIndex + 1, pos[2])
                   /\ posIndex' = posIndex + 2
                   /\ colors' = store(store(store(colors, colorIndex, color[1]),
                                            colorIndex + 1, color[2]),
                                      colorIndex + 2, color[3])
                   /\ colorIndex' = colorIndex + 3
  /\ gI' = gI + 1
  /\ UNCHANGED <<gPc, gSys, gCount, points3D>>
  /\ UNCHANGED <<morphVars, selVars, renderVars>>

\* the generator is exhausted: generateFlamePointBatch returns the arrays
FlameBatchReturn ==
  /\ gPc = "emit"
  /\ gI = gCount
  /\ gPc' = "returned"
  /\ UNCHANGED <<gSys, gCount, gI, gPos, gColorIndex, gLast, gSkipped,
                 positions, colors, posIndex, colorIndex, points3D>>
  /\ UNCHANGED <<morphVars, selVars, renderVars>>

\* the renderer copies every pair of the positions array into the vertex
\* array it uploads and draws
UploadBatch ==
  /\ gPc = "returned"
  /\ points3D' = [k \in 1..((Len(positions) \div 2) * 3) |->
                    LET i == (k - 1) \div 3
                    IN  IF (k - 1) % 3 = 2 THEN Num(0)
                        ELSE positions[i * 2 + ((k - 1) % 3) + 1]]
  /\ gPc' = "uploaded"
  /\ UNCHANGED <<gSys, gCount, gI, gPos, gColorIndex, gLast, gSkipped,
                 positions, colors, posIndex, colorIndex>>
  /\ UNCHANGED <<morphVars, selVars, renderVars>>

\* the point cloud is replaced by the next one
BatchDone ==
  /\ gPc = "uploaded"
  /\ gPc' = "idle"
  /\ gSys' = NoFlameSystem
  /\ gCount' = 0
  /\ gI' = 0
  /\ gPos' = <<Num(0), Num(0)>>
  /\ gColorIndex' = Num(0)
  /\ gLast' = NoLast
  /\ gSkipped' = 0
  /\ positions' = <<>>
  /\ colors' = <<>>
  /\ posIndex' = 0
  /\ colorIndex' = 0
  /\ points3D' = <<>>
  /\ UNCHANGED <<morphVars, selVars, renderVars>>

SamplerNext ==
  \/ StartFlameBatch
  \/ FlameBurnIn
  \/ FlameEmit
  \/ FlameBatchReturn
  \/ UploadBatch
  \/ BatchDone

SpecSampler == Init /\ [][SamplerNext]_vars

(***************************************************************************)
(* A Moebius batch: generateMobiusPointBatch and mobiusChaosGame.          *)
(***************************************************************************)
hasColors(system) == \E i \in 1..Len(system.maps) : IsDefined(system.maps[i].color)

StartMobiusBatch ==
  /\ gPc = "idle"
  /\ \E system \in MobiusSamplerSystems, count \in 1..MaxCount,
        sx \in MobiusSeedDraws, sy \in MobiusSeedDraws :
       /\ gSys' = system
       /\ gCount' = count
       /\ positions' = zeros(count * 2)
       /\ colors' = IF hasColors(system) THEN zeros(count * 3) ELSE <<>>
       /\ gPos' = <<seedCoord(sx), seedCoord(sy)>>
  /\ gColorIndex' = Num(0)
  /\ posIndex' = 0
  /\ colorIndex' = 0
  /\ gI' = 0
  /\ gLast' = NoLast
  /\ gSkipped' = 0
  /\ points3D' = <<>>
  /\ gPc' = "burn"
  /\ UNCHANGED <<morphVars, selVars, renderVars>>

\* one iteration of the burn-in loop
MobiusBurnIn ==
  /\ gPc = "burn"
  /\ gI < mobiusSkipInitial
  /\ \E rand \in RandValues :
       \E map \in {gSys.maps[selectRandomMobiusMap(gSys.maps, rand)]} :
         \E z \in {applyMobius(gPos, map)} :
           gPos' = keepInBounds(z)
  /\ IF gI + 1 < mobiusSkipInitial
     THEN gI' = gI + 1 /\ gPc' = "burn"
     ELSE gI' = 0 /\ gPc' = "emit"
  /\ UNCHANGED <<gSys, gCount, gColorIndex, gLast, gSkipped,
                 positions, colors, posIndex, colorIndex, points3D>>
  /\ UNCHANGED <<morphVars, selVars, renderVars>>

\* one iteration of the emit loop, and the body of the batch's for-of loop
\* for the point it yields
MobiusEmit ==
  /\ gPc = "emit"
  /\ gI < gCount
  /\ \E rand \in RandValues :
       \E map \in {gSys.maps[selectRandomMobiusMap(gSys.maps, rand)]} :
         \E moved \in {applyMobius(gPos, map)} :
           \E z \in {keepInBounds(moved)} :
             /\ gPos' = z
             /\ IF mobiusYields(z)
                THEN \E pos \in {normalized(gSys, z, Num(1))} :
                     /\ gLast' = [has |-> TRUE, moved |-> moved, yielded |-> TRUE,
                                  point |-> z]
                     /\ positions' = store(store(positions, posIndex, pos[1]),
                                           posIndex + 1, pos[2])
                     /\ posIndex' = posIndex + 2
                     /\ IF colors # <<>>
                        THEN \E color \in {OrDefault(map.color, White)} :
                             /\ colors' = store(store(store(colors, colorIndex, color[1]),
                                                      colorIndex + 1, color[2]),
                                                colorIndex + 2, color[3])
                             /\ colorIndex' = colorIndex + 3
                        ELSE UNCHANGED <<colors, colorIndex>>
                     /\ UNCHANGED gSkipped
                ELSE /\ gLast' = [has |-> TRUE, moved |-> moved, yielded |-> FALSE,
                                  point |-> z]
                     /\ gSkipped' = gSkipped + 1
                     /\ UNCHANGED <<positions, colors, posIndex, colorIndex>>
  /\ gI' = gI + 1
  /\ UNCHANGED <<gPc, gSys, gCount, gColorIndex, points3D>>
  /\ UNCHANGED <<morphVars, selVars, renderVars>>

\* the generator is exhausted: generateMobiusPointBatch returns the arrays
MobiusBatchReturn ==
  /\ gPc = "emit"
  /\ gI = gCount
  /\ gPc' = "returned"
  /\ UNCHANGED <<gSys, gCount, gI, gPos, gColorIndex, gLast, gSkipped,
                 positions, colors, posIndex, colorIndex, points3D>>
  /\ UNCHANGED <<morphVars, selVars, renderVars>>

\* the caller drops the batch; the next call may start
MobiusBatchDone ==
  /\ gPc = "returned"
  /\ gPc' = "idle"
  /\ gSys' = NoFlameSystem
  /\ gCount' = 0
  /\ gI' = 0
  /\ gPos' = <<Num(0), Num(0)>>
  /\ gColorIndex' = Num(0)
  /\ gLast' = NoLast
  /\ gSkipped' = 0
  /\ positions' = <<>>
  /\ colors' = <<>>
  /\ posIndex' = 0
  /\ colorIndex' = 0
  /\ points3D' = <<>>
  /\ UNCHANGED <<morphVars, selVars, renderVars>>

MobiusNext ==
  \/ StartMobiusBatch
  \/ MobiusBurnIn
  \/ MobiusEmit
  \/ MobiusBatchReturn
  \/ MobiusBatchDone

SpecMobius == Init /\ [][MobiusNext]_vars

(***************************************************************************)
(* An affine batch: generatePointBatch and chaosGame.                      *)
(***************************************************************************)
StartAffineBatch ==
  /\ gPc = "idle"
  /\ \E system \in AffineSamplerSystems, count \in 1..MaxCount,
        sx \in AffineSeedDraws, sy \in AffineSeedDraws :
       /\ gSys' = system
       /\ gCount' = count
       /\ positions' = zeros(count * 2)
       /\ colors' = IF hasColors(system) THEN zeros(count * 3) ELSE <<>>
       /\ gPos' = <<seedCoord(sx), seedCoord(sy)>>
  /\ gColorIndex' = Num(0)
  /\ posIndex' = 0
  /\ colorIndex' = 0
  /\ gI' = 0
  /\ gLast' = NoLast
  /\ gSkipped' = 0
  /\ points3D' = <<>>
  /\ gPc' = "burn"
  /\ UNCHANGED <<morphVars, selVars, renderVars>>

\* one iteration of the burn-in loop
AffineBurnIn ==
  /\ gPc = "burn"
  /\ loopContinues(gI, chaosGameSkipInitial)
  /\ \E rand \in RandValues :
       \E map \in {gSys.maps[selectRandomMap(gSys.maps, rand)]} :
         gPos' = roundedPoint(applyAffineMap(gPos[1], gPos[2], map))
  /\ gI' = gI + 1
  /\ UNCHANGED <<gPc, gSys, gCount, gColorIndex, gLast, gSkipped,
                 positions, colors, posIndex, colorIndex, points3D>>
  /\ UNCHANGED <<morphVars, selVars, renderVars>>

\* the burn-in loop ends; the emit loop starts with its own counter
AffineBurnInDone ==
  /\ gPc = "burn"
  /\ ~loopContinues(gI, chaosGameSkipInitial)
  /\ gPc' = "emit"
  /\ gI' = 0
  /\ UNCHANGED <<gSys, gCount, gPos, gColorIndex, gLast, gSkipped,
                 positions, colors, posIndex, colorIndex, points3D>>
  /\ UNCHANGED <<morphVars, selVars, renderVars>>

\* one iteration of the emit loop, and the body of the batch's for-of loop
\* for the point it yields
AffineEmit ==
  /\ gPc = "emit"
  /\ loopContinues(gI, gCount)
  /\ \E rand \in RandValues :
       \E map \in {gSys.maps[selectRandomMap(gSys.maps, rand)]} :
         \E moved \in {roundedPoint(applyAffineMap(gPos[1], gPos[2], map))} :
           \E pos \in {normalized(gSys, moved, Num(1))} :
             /\ gPos' = moved
             /\ gLast' = [has |-> TRUE, moved |-> moved, yielded |-> TRUE,
                          point |-> moved]
             /\ positions' = store(store(positions, posIndex, pos[1]),
                                   posIndex + 1, pos[2])
             /\ posIndex' = posIndex + 2
             /\ IF colors # <<>>
                THEN \E color \in {OrDefault(map.color, White)} :
                     /\ colors' = store(store(store(colors, colorIndex, color[1]),
                                              colorIndex + 1, color[2]),
                                        colorIndex + 2, color[3])
                     /\ colorIndex' = colorIndex + 3
                ELSE UNCHANGED <<colors, colorIndex>>
  /\ gI' = gI + 1
  /\ UNCHANGED <<gPc, gSys, gCount, gColorIndex, gSkipped, points3D>>
  /\ UNCHANGED <<morphVars, selVars, renderVars>>

\* the generator is exhausted: generatePointBatch returns the arrays
AffineBatchReturn ==
  /\ gPc = "emit"
  /\ ~loopContinues(gI, gCount)
  /\ gPc' = "returned"
  /\ UNCHANGED <<gSys, gCount, gI, gPos, gColorIndex, gLast, gSkipped,
                 positions, colors, posIndex, colorIndex, points3D>>
  /\ UNCHANGED <<morphVars, selVars, renderVars>>

AffineNext ==
  \/ StartAffineBatch
  \/ AffineBurnIn
  \/ AffineBurnInDone
  \/ AffineEmit
  \/ AffineBatchReturn
  \/ UploadBatch
  \/ BatchDone

SpecAffine == Init /\ [][AffineNext]_vars

\* the calls of a single-threaded caller: a morph call or a batch call, one
\* at a time
CallsNext ==
  \/ gPc = "idle" /\ MorphNext
  \/ morphPc = "idle" /\ AffineNext

SpecCalls == Init /\ [][CallsNext]_vars

(***************************************************************************)
(* The renderer hook: the first render, later renders, frames.             *)
(***************************************************************************)
\* the component mounts: every effect runs once, in declaration order
Mount ==
  /\ ~mounted
  /\ rStep.kind = "none"
  /\ \E canvasReady \in BOOLEAN, ac \in BOOLEAN :
       rs' = mountEffects(rs, config, canvasReady, ac)
  /\ mounted' = TRUE
  /\ rStep' = [kind |-> "mount", nameChanged |-> FALSE, onlyView |-> FALSE,
               keptBefore |-> FALSE]
  /\ UNCHANGED <<config, frameBudget>>
  /\ UNCHANGED <<morphVars, selVars, samplerVars, canvas>>

\* the component renders again with the configuration cfg
Rerender(cfg) ==
  /\ mounted
  /\ cfg # config
  /\ rs' = updateEffects(rs, config, cfg)
  /\ rs'.accum.frames <= frameBudget
  /\ config' = cfg
  /\ rStep' = [kind |-> "update",
               nameChanged |-> cfg.system.name # config.system.name,
               onlyView |-> /\ cfg.system = config.system
                            /\ cfg.infiniteAccumulation = config.infiniteAccumulation
                            /\ cfg.trails = config.trails,
               keptBefore |-> keepsDensity(config)]
  /\ UNCHANGED <<mounted, frameBudget>>
  /\ UNCHANGED <<morphVars, selVars, samplerVars, canvas>>

\* the parent passes any new configuration
UpdateConfig == \E cfg \in Configs : Rerender(cfg)

\* the parent switches infinite accumulation or trails, and nothing else
UpdateMode == \E cfg \in ModeConfigs : Rerender(cfg)

\* the browser runs a pending animation-frame callback, whether or not the
\* component is still mounted.  The callback
\* reads infiniteAccumulation and trails from the configuration its effect
\* closed over; the effect re-runs whenever either changes, so these are
\* the current ones.
Frame ==
  /\ rs.frameCount < frameBudget
  /\ rs.accum.frames < frameBudget
  /\ \E id \in rs.pending :
       rs' = animate(beginStep([rs EXCEPT !.pending = @ \ {id}]), config)
  /\ rStep' = [kind |-> "frame", nameChanged |-> FALSE, onlyView |-> FALSE,
               keptBefore |-> keepsDensity(config)]
  /\ UNCHANGED <<config, mounted, frameBudget>>
  /\ UNCHANGED <<morphVars, selVars, samplerVars, canvas>>

\* the component unmounts: every effect's cleanup runs
Unmount ==
  /\ mounted
  /\ rs' = unmountCleanups(rs)
  /\ mounted' = FALSE
  /\ rStep' = [kind |-> "unmount", nameChanged |-> FALSE, onlyView |-> FALSE,
               keptBefore |-> keepsDensity(config)]
  /\ UNCHANGED <<config, frameBudget>>
  /\ UNCHANGED <<morphVars, selVars, samplerVars, canvas>>

RenderNext == Mount \/ UpdateConfig \/ Frame \/ Unmount

\* configuration changes of every kind, over short runs of the loop
InitRender == MorphInit /\ SelInit /\ SamplerInit /\ RenderInit(Configs, ShortRun)

SpecRender == InitRender /\ [][RenderNext]_vars

RenderLoopNext == Mount \/ UpdateMode \/ Frame \/ Unmount

\* one system under one view, over runs of the loop longer than the clear period
InitRenderLoop ==
  MorphInit /\ SelInit /\ SamplerInit /\ RenderInit(ModeConfigs, LongRun)

SpecRenderLoop == InitRenderLoop /\ [][RenderLoopNext]_vars

(***************************************************************************)
(* The 2D canvas component: mouse events and renders of its parent.        *)
(***************************************************************************)
CanvasStep(next, kind) ==
  /\ canvas.events < MaxEvents
  /\ canvas' = [next EXCEPT !.step = kind, !.events = canvas.events + 1]
  /\ UNCHANGED <<config, mounted, rs, rStep, frameBudget>>
  /\ UNCHANGED <<morphVars, selVars, samplerVars>>

\* the first render of the component
CanvasMount ==
  /\ canvas.step = "none"
  /\ \E pan \in ParentPans, zoom \in ParentZooms :
       CanvasStep(firstCanvas(pan, zoom), "mount")

MouseDown ==
  /\ canvas.step # "none"
  /\ \E e \in MousePositions : CanvasStep(handleMouseDown(canvas, e), "down")

MouseMove ==
  /\ canvas.step # "none"
  /\ \E e \in MousePositions : CanvasStep(handleMouseMove(canvas, e), "move")

MouseUp ==
  /\ canvas.step # "none"
  /\ CanvasStep(handleMouseUp(canvas), "up")

\* the parent renders again on a tick of its animation loop: rendererConfig2D
\* is a new object with the pan and zoom the parent holds
ParentRerender ==
  /\ canvas.step # "none"
  /\ CanvasStep(syncEffect(canvas), "tick")

CanvasNext == CanvasMount \/ MouseDown \/ MouseMove \/ MouseUp \/ ParentRerender

SpecCanvas == Init /\ [][CanvasNext]_vars

(***************************************************************************)
(* Properties of system morphing.                                          *)
(***************************************************************************)
ProbabilitiesOf(list) == [i \in 1..Len(list) |-> list[i].probability]

\* C1: whatever the input probabilities (also all 0), the probabilities of the
\* maps / transforms of a morphed system sum to exactly 1.
C1_ProbabilitiesSumToOne ==
  /\ morphPc = "ifs" => NumEq(SumSeq(ProbabilitiesOf(morphOut.maps)), Num(1))
  /\ morphPc = "flame" => NumEq(SumSeq(ProbabilitiesOf(morphOut.transforms)), Num(1))

\* the list extended to n entries by repeating its last entry
PaddedTo(list, n) == [i \in 1..n |-> IF i <= Len(list) THEN list[i] ELSE list[Len(list)]]

\* `maps` carries the matrices and translations of `expected`, and the
\* probabilities of `expected` divided by their sum
SameMapsUpToRenormalization(maps, expected) ==
  /\ Len(maps) = Len(expected)
  /\ \A i \in 1..Len(expected) :
       /\ maps[i].matrix = expected[i].matrix
       /\ maps[i].translation = expected[i].translation
       /\ maps[i].probability =
            NumDiv(expected[i].probability, SumSeq(ProbabilitiesOf(expected)))

WeightOf(variations, type) ==
  IF \E k \in 1..Len(variations) : variations[k].type = type
  THEN variations[CHOOSE k \in 1..Len(variations) :
                    /\ variations[k].type = type
                    /\ \A j \in 1..(k - 1) : variations[j].type # type].weight
  ELSE Num(0)

TypesOf(variations) == { variations[k].type : k \in 1..Len(variations) }

\* the two input transforms morphed into transform i of the result
SideA(i) == ElementOrLast(morphArgs.a.transforms, i)

SideB(i) == ElementOrLast(morphArgs.b.transforms, i)

\* lerp(weightA, weightB, t) for a type, t clamped to [0,1]
LerpedWeight(i, type) ==
  LET t  == NumMax(Num(0), NumMin(Num(1), morphArgs.t))
      wA == WeightOf(SideA(i).variations, type)
      wB == WeightOf(SideB(i).variations, type)
  IN  NumAdd(wA, NumMul(NumSub(wB, wA), t))

UnionTypes(i) == TypesOf(SideA(i).variations) \cup TypesOf(SideB(i).variations)

\* C21 as stated: the variations of a morphed transform are the types of
\* either side whose lerped weight (absent side 0) is 0.001 or more, each
\* with that weight; a type is dropped exactly when the weight is below 0.001.
C21_DroppedBelowThreshold ==
  morphPc = "flame" =>
    \A i \in 1..Len(morphOut.transforms) :
      LET out == morphOut.transforms[i].variations
      IN  /\ TypesOf(out) =
               { type \in UnionTypes(i) :
                   ~NumLess(LerpedWeight(i, type), Rat(1, 1000)) }
          /\ \A k \in 1..Len(out) : out[k].weight = LerpedWeight(i, out[k].type)

\* C21 amended: the variations of a morphed transform are the types of
\* either side whose lerped weight (absent side 0) exceeds 0.001, each once
\* and with that weight; a type whose weight is 0.001 or less is dropped.
C21_KeptAboveThreshold ==
  morphPc = "flame" =>
    \A i \in 1..Len(morphOut.transforms) :
      LET out == morphOut.transforms[i].variations
      IN  /\ TypesOf(out) =
               { type \in UnionTypes(i) :
                   NumLess(Rat(1, 1000), LerpedWeight(i, type)) }
          /\ \A k \in 1..Len(out) : out[k].weight = LerpedWeight(i, out[k].type)
          /\ \A j, k \in 1..Len(out) : out[j].type = out[k].type => j = k

\* C21 witness: a type present on one side only was kept at half its weight,
\* and a type whose lerped weight is exactly 0.001 was dropped
C21_Witness ==
  /\ morphPc = "flame"
  /\ morphArgs.t = Rat(1, 2)
  /\ \E i \in 1..Len(morphOut.transforms) :
       LET out == morphOut.transforms[i].variations
       IN  /\ "Swirl" \in TypesOf(out)
           /\ "Swirl" \notin TypesOf(SideA(i).variations)
           /\ WeightOf(out, "Swirl") = Rat(1, 4)
  /\ \E i \in 1..Len(morphOut.transforms) :
       /\ LerpedWeight(i, "Linear") = Rat(1, 1000)
       /\ "Linear" \notin TypesOf(morphOut.transforms[i].variations)

\* C22: morphing two flame systems with non-empty palettes (also two
\* palettes of one control point) raises no error and returns a palette of
\* max(|paletteA|, |paletteB|) control points, every component a number.
C22_PaletteResampledToLonger ==
  morphPc \in {"flame", "threw"} =>
    /\ morphPc # "threw"
    /\ Len(morphOut.palette[1]) =
         IntMax(Len(morphArgs.a.palette[1]), Len(morphArgs.b.palette[1]))
    /\ \A i \in 1..Len(morphOut.palette[1]) :
         \A k \in 1..3 : isFinite(morphOut.palette[1][i][k])

\* a + (b - a) * t at the call's t clamped to [0,1]
Mix(a, b) ==
  NumAdd(a, NumMul(NumSub(b, a), NumMax(Num(0), NumMin(Num(1), morphArgs.t))))

\* C23: a morph of systems of different cardinality has max(|A|, |B|) maps
\* (transforms); map i is interpolated between A's map i and B's map i, and
\* at and beyond the end of the shorter system that system's last map stands
\* in.
C23_LastMapStandsIn ==
  /\ morphPc = "ifs" =>
       LET n == IntMax(Len(morphArgs.a.maps), Len(morphArgs.b.maps))
           A == PaddedTo(morphArgs.a.maps, n)
           B == PaddedTo(morphArgs.b.maps, n)
       IN  /\ Len(morphOut.maps) = n
           /\ \A i \in 1..n :
                /\ \A k \in 1..4 :
                     morphOut.maps[i].matrix[k] = Mix(A[i].matrix[k], B[i].matrix[k])
                /\ \A k \in 1..2 :
                     morphOut.maps[i].translation[k] =
                       Mix(A[i].translation[k], B[i].translation[k])
  /\ morphPc = "flame" =>
       LET n == IntMax(Len(morphArgs.a.transforms), Len(morphArgs.b.transforms))
           A == PaddedTo(morphArgs.a.transforms, n)
           B == PaddedTo(morphArgs.b.transforms, n)
       IN  /\ Len(morphOut.transforms) = n
           /\ \A i \in 1..n :
                /\ \A k \in 1..6 :
                     morphOut.transforms[i].coefs[k] = Mix(A[i].coefs[k], B[i].coefs[k])
                /\ morphOut.transforms[i].colorIndex =
                     Mix(A[i].colorIndex, B[i].colorIndex)

\* C23 witness: A has two different maps and B three; at t = 0 the third map
\* of the result carries the matrix of A's second map, not of its first
C23_Witness ==
  /\ morphPc = "ifs"
  /\ Len(morphArgs.a.maps) = 2
  /\ Len(morphArgs.b.maps) = 3
  /\ morphArgs.t = Num(0)
  /\ morphArgs.a.maps[1].matrix # morphArgs.a.maps[2].matrix
  /\ morphOut.maps[3].matrix = morphArgs.a.maps[2].matrix
  /\ morphOut.maps[3].matrix # morphArgs.a.maps[1].matrix

(***************************************************************************)
(* Properties of the map selection.                                        *)
(***************************************************************************)
\* C4: the selectors return the first map, in list order, whose cumulative
\* probability strictly exceeds the draw, and the last map of the list when no
\* cumulative probability exceeds it.
C4_FirstMapExceedingDraw ==
  selPc # "idle" =>
    LET list      == selArgs.list
        cumul(i)  == SumSeq(ProbabilitiesOf(SubSeq(list, 1, i)))
        exceeding == { i \in 1..Len(list) : NumLess(selArgs.rand, cumul(i)) }
    IN  /\ selOut \in 1..Len(list)
        /\ exceeding # {} => selOut \in exceeding /\ \A j \in exceeding : selOut <= j
        /\ exceeding = {} => selOut = Len(list)

\* C4 witness: a draw above the sum of the probabilities of a two-map list
\* fell through the scan and the last map was returned
C4_Witness ==
  /\ selPc = "affine"
  /\ Len(selArgs.list) = 2
  /\ NumLess(SumSeq(ProbabilitiesOf(selArgs.list)), selArgs.rand)
  /\ selOut = 2

(***************************************************************************)
(* Properties of the flame sampler and its batch.                          *)
(***************************************************************************)
InEmitPhase == gPc \in {"emit", "returned", "uploaded"}

WithinRadius(p, radius) ==
  /\ isFinite(p[1]) /\ isFinite(p[2])
  /\ ~NumLess(Num(radius * radius), NumAdd(NumMul(p[1], p[1]), NumMul(p[2], p[2])))

InSeedSquare(p) ==
  /\ isFinite(p[1]) /\ isFinite(p[2])
  /\ ~NumLess(p[1], Num(-1)) /\ ~NumLess(Num(1), p[1])
  /\ ~NumLess(p[2], Num(-1)) /\ ~NumLess(Num(1), p[2])

\* C3: every point flameChaosGame yields has finite coordinates and comes
\* from an orbit position of magnitude <= 100; an iteration whose position has
\* magnitude > 100 or a non-finite coordinate re-seeds the orbit inside
\* [-1,1]^2 and yields nothing.
C3_FlameDivergenceGuard ==
  (InEmitPhase /\ gLast.has) =>
    /\ gLast.yielded =>
         /\ WithinRadius(gLast.moved, flameEscapeRadius)
         /\ isFinite(gLast.point[1]) /\ isFinite(gLast.point[2])
         /\ gPos = gLast.moved
    /\ ~WithinRadius(gLast.moved, flameEscapeRadius) =>
         /\ ~gLast.yielded
         /\ InSeedSquare(gPos)

\* C3 witness: after a point was written to the batch, an iteration produced a
\* non-finite position, yielded nothing and re-seeded the orbit
C3_Witness ==
  /\ gPc = "emit"
  /\ gLast.has /\ ~gLast.yielded
  /\ ~isFinite(gLast.moved[1])
  /\ posIndex > 0
  /\ InSeedSquare(gPos)

\* C5 as stated: the batch generateFlamePointBatch returns holds exactly
\* count emitted points, also when the divergence guard skipped samples.
C5_ExactlyCountEmitted ==
  gPc = "returned" => posIndex = 2 * gCount

\* C6: every point of the buffers the batch call returns and the renderer
\* uploads and draws is a point the sampler emitted; a skipped sample
\* contributes no drawn point.
C6_OnlyEmittedPointsDrawn ==
  gPc = "uploaded" => Len(points3D) \div 3 = posIndex \div 2

(***************************************************************************)
(* Properties of the accumulation buffer's lifecycle.                      *)
(***************************************************************************)
\* the current step issued the operation op
InLog(op) == \E i \in 1..Len(rs.log) : rs.log[i] = op

\* every display pass of the current step comes after an operation op
DisplayOnlyAfter(op) ==
  \A i \in 1..Len(rs.log) :
    rs.log[i] = "display" => \E j \in 1..(i - 1) : rs.log[j] = op

\* C7: whenever a render brings a system whose name differs from the name of
\* the system before, whatever infiniteAccumulation and trails are, the
\* accumulation buffer is cleared in that render, before any pass displays
\* it; the buffer and the screen never hold density of a system other than
\* the one the frame was rendered for.
C7_ClearedOnNameChange ==
  /\ (rStep.nameChanged /\ rs.ready) =>
       /\ InLog("clear:update")
       /\ DisplayOnlyAfter("clear:update")
       /\ rs.accum.names \subseteq {config.system.name}
  /\ InLog("display") => rs.screen \subseteq {config.system.name}

\* C7 witness: with infinite accumulation on and trails on, a render that
\* changes the system's name has discarded the frames accumulated for the
\* system before
C7_Witness ==
  /\ rStep.nameChanged
  /\ rs.ready
  /\ ~rs.autoClear
  /\ config.infiniteAccumulation = "true"
  /\ config.trails
  /\ InLog("clear:update")
  /\ rs.dropped > 1

\* C8: while infinite accumulation or motion trails is active (before and
\* after the step), no frame and no render clears the accumulation buffer,
\* except the render that changes the system's name.
C8_NoClearWhileKeepingDensity ==
  (/\ rStep.kind \in {"update", "frame"}
   /\ rStep.keptBefore
   /\ keepsDensity(config)
   /\ (InLog("clear:update") \/ InLog("clear:periodic")))
  => rStep.nameChanged

\* C9: while motion trails is active, every frame that draws into the
\* accumulation buffer also runs a fade pass that multiplies the buffer by a
\* decay factor below 1.
C9_TrailsFadeEveryFrame ==
  (config.trails /\ InLog("accumulate")) => InLog("fade")

\* C10: while neither infinite accumulation nor motion trails is active, a
\* frame clears the accumulation buffer exactly when the loop's frame counter
\* is a multiple of 300, and the buffer never holds more than 300 frames.
C10_ClearedEveryPeriod ==
  (mounted /\ rs.running /\ loopShouldClear(config)) =>
    /\ rs.accum.frames <= ClearPeriod
    /\ (rStep.kind = "frame" /\ InLog("accumulate")) =>
         (InLog("clear:periodic") <=> (rs.frameCount - 1) % ClearPeriod = 0)

\* C10 witness: the frame drawn after 300 frames had accumulated has cleared
\* them
C10_Witness ==
  /\ loopShouldClear(config)
  /\ ~rs.autoClear
  /\ rStep.kind = "frame"
  /\ rs.frameCount = ClearPeriod + 1
  /\ InLog("clear:periodic")
  /\ rs.dropped = ClearPeriod
  /\ rs.accum.frames = 1

\* the current step cleared the accumulation buffer by a renderer.clear()
ClearedInStep(r) ==
  \E i \in 1..Len(r.log) : r.log[i] \in {"clear:init", "clear:update", "clear:periodic"}

\* C11: a render that keeps the system object, infiniteAccumulation and trails
\* and changes only the zoom or the iteration count leaves the accumulation
\* buffer as it was and leaves the loop's frame counter as it was.
C11_ViewChangeKeepsBuffer ==
  [][(rStep'.kind = "update" /\ rStep'.onlyView /\ config' # config) =>
       /\ rs'.accum = rs.accum
       /\ rs'.frameCount = rs.frameCount
       /\ ~ClearedInStep(rs')]_vars

\* C11 witness: a zoom or iteration change regenerated the point cloud while
\* the buffer held several frames in normal mode and the counter had advanced
C11_Witness ==
  /\ rStep.kind = "update"
  /\ rStep.onlyView
  /\ rs.ready
  /\ ~rs.autoClear
  /\ loopShouldClear(config)
  /\ InLog("generate")
  /\ rs.accum.frames >= 2
  /\ rs.frameCount >= 2

IsPass(op) == op \in {"generate", "upload", "accumulate", "display"}

\* C12: every frame tick of the render loop generates a fresh point batch,
\* uploads it, accumulates it and displays the buffer, once and in this order.
C12_OneCyclePerFrame ==
  (rStep.kind = "frame" /\ rs.ready) =>
    SelectSeq(rs.log, IsPass) = <<"generate", "upload", "accumulate", "display">>

\* C19: a re-render clears the accumulation buffer only when it changes the
\* active system's name or toggles the accumulation mode (infinite
\* accumulation or trails); a re-render that brings a new system object of the
\* same name clears nothing.
C19_ClearOnlyOnNameOrModeChange ==
  [][(rStep'.kind = "update" /\ ClearedInStep(rs')) =>
       \/ config'.system.name # config.system.name
       \/ config'.infiniteAccumulation # config.infiniteAccumulation
       \/ config'.trails # config.trails]_vars

\* C27: once the component has unmounted no animation-frame request stays
\* pending, so no frame callback runs and renders after the teardown, and
\* the accumulation target created for the canvas was disposed exactly once.
C27_NoFrameAfterTeardown ==
  /\ rStep.kind = "frame" => mounted
  /\ rStep.kind = "unmount" =>
       /\ rs.pending = {}
       /\ rs.disposed = (IF rs.ready THEN 1 ELSE 0)

\* C27 witness: the component unmounted while its loop had drawn frames and
\* had the next one requested
C27_Witness ==
  /\ rStep.kind = "unmount"
  /\ ~mounted
  /\ rs.ready
  /\ rs.accum.frames >= 2
  /\ rs.animationFrameRef # 0
  /\ rs.pending = {}
  /\ rs.disposed = 1

IsDraw(op) == op \in {"accumulate", "display"}

\* C28: in every step that draws, the accumulate pass comes once and before
\* the one display pass; the accumulation target receives the point cloud
\* and never the display quad, and the screen receives the display quad and
\* never the points.
C28_AccumulateThenDisplay ==
  /\ rs.accumGot \subseteq {"points"}
  /\ rs.screenGot \subseteq {"quad"}
  /\ (InLog("accumulate") \/ InLog("display")) =>
       /\ SelectSeq(rs.log, IsDraw) = <<"accumulate", "display">>
       /\ rs.accumGot = {"points"}
       /\ rs.screenGot = {"quad"}

\* C28 witness: a frame drew the points into a target that held frames and
\* then the quad to the screen, after the previous frame had left the quad
\* visible and the points hidden
C28_Witness ==
  /\ rStep.kind = "frame"
  /\ rs.accum.frames >= 2
  /\ rs.frameCount >= 2
  /\ rs.accumGot = {"points"}
  /\ rs.screenGot = {"quad"}
  /\ rs.quadVisible
  /\ ~rs.pointsVisible

\* C30: while a drag is in progress the local pan is the pan at mouse-down
\* moved by every mouse-move of the drag, also when the parent renders again
\* in between, and the pan onPanChange reports at mouse-up is that pan.
C30_DragPanSurvivesRerender ==
  /\ canvas.isDragging => canvas.localPan = canvas.dragPan[1]
  /\ (canvas.step = "up" /\ canvas.dragPan # <<>>) =>
       canvas.reported = canvas.dragPan

\* C29: while the component is mounted, after any sequence of mode toggles
\* and frame callbacks, exactly one animation-frame request is pending and
\* its id is the one stored in animationFrameRef for cancellation.
C29_OneLoopScheduled ==
  mounted =>
    /\ Cardinality(rs.pending) = 1
    /\ rs.pending = {rs.animationFrameRef}

\* C29 witness: the render-loop effect re-ran on a mode toggle after frames
\* had been drawn, and one request is pending
C29_Witness ==
  /\ mounted
  /\ rStep.kind = "update"
  /\ ~rStep.onlyView
  /\ ~rStep.nameChanged
  /\ rs.ready
  /\ rs.frameCount = 1
  /\ rs.accum.frames >= 2
  /\ rs.pending = {rs.animationFrameRef}

\* C20: every iteration of the flame sampler, in the burn-in and in the emit
\* loop, replaces the colour index by
\* transform.colorIndex * colorSpeed + (1 - colorSpeed) * colorIndex for one
\* of the system's transforms (colorSpeed 0.5 when the transform has none),
\* and the colour index stays in [0,1].
C20_ColorIndexSmoothed ==
  [][(gPc \in {"burn", "emit"} /\ gPc' \in {"burn", "emit"}) =>
       /\ \E i \in DOMAIN gSys.transforms :
            LET colorSpeed == OrDefault(gSys.transforms[i].colorSpeed, Rat(1, 2))
            IN  gColorIndex' =
                  NumAdd(NumMul(gSys.transforms[i].colorIndex, colorSpeed),
                         NumMul(NumSub(Num(1), colorSpeed), gColorIndex))
       /\ ~NumLess(gColorIndex', Num(0))
       /\ ~NumLess(Num(1), gColorIndex')]_vars

(***************************************************************************)
(* Properties of the Moebius sampler.                                      *)
(***************************************************************************)
FinitePoint(p) == isFinite(p[1]) /\ isFinite(p[2])

\* C13: every point mobiusChaosGame yields has finite coordinates; an
\* emit-loop iteration whose value is not finite after the magnitude rescale
\* yields nothing, and the batch receives nothing for it.
C13_MobiusYieldsFinite ==
  (gPc \in {"emit", "returned"} /\ gLast.has) =>
    /\ gLast.yielded <=> FinitePoint(gLast.point)
    /\ posIndex = 2 * (gI - gSkipped)
    /\ \A k \in 1..posIndex : isFinite(positions[k])

\* C13 witness: after an emitted point, an iteration whose value is not
\* finite has yielded nothing
C13_Witness ==
  /\ gPc = "emit"
  /\ gLast.has
  /\ ~gLast.yielded
  /\ ~FinitePoint(gLast.point)
  /\ gSkipped > 0
  /\ posIndex > 0


C25_SentinelLeavesFrame ==
  (/\ gPc \in {"emit", "returned"}
   /\ gLast.has
   /\ gLast.moved = << Num(mobiusSentinel), Num(mobiusSentinel) >>)
  => /\ gLast.yielded
     /\ ~WithinRadius(gLast.point, mobiusBound)

C15_AllCountPointsWritten ==
  /\ gPc \in {"burn", "emit", "returned"} => Len(positions) = 2 * gCount
  /\ gPc = "burn" => posIndex = 0 /\ ~gLast.has
  /\ gPc = "emit" => posIndex = 2 * gI /\ gI <= gCount
  /\ gPc = "returned" => posIndex = 2 * gCount /\ gI = gCount /\ gLast.yielded

\* C15 witness: a batch of more than one point has been returned after the
\* whole burn-in
C15_Witness ==
  /\ gPc = "returned"
  /\ gCount > 1
  /\ posIndex = 2 * gCount
  /\ gLast.yielded

\* C16: for the Sierpinski system every orbit position, in the burn-in and
\* the emit loop, and every emitted point lies within [-1,1]^2.
C16_SierpinskiStaysInSeedSquare ==
  (gPc \in {"burn", "emit", "returned"} /\ gSys.name = sierpinski.name) =>
    /\ InSeedSquare(gPos)
    /\ gLast.has => InSeedSquare(gLast.point)

\* C16 witness: a Sierpinski batch seeded at a corner of the seed square has
\* emitted a point next to the triangle's lower left corner
C16_Witness ==
  /\ gPc = "returned"
  /\ gSys.name = sierpinski.name
  /\ gLast.has
  /\ NumLess(gLast.point[1], Rat(-3, 4))
  /\ NumLess(gLast.point[2], Rat(-3, 4))

(***************************************************************************)
(* Properties of samplePalette.                                            *)
(***************************************************************************)
\* C17: for a non-empty palette, of one control point or more, samplePalette
\* at index 0, at index 1 and at every other whole index returns the first
\* control point, and for every index both palette reads fall inside the
\* palette.
C17_PaletteSamplingWraps ==
  selPc = "palette" =>
    LET palette == selArgs.list
        index   == selArgs.rand
    IN  /\ \A r \in 1..2 : selOut.reads[r] \in 0..(Len(palette) - 1)
        /\ index.d = 1 => selOut.color = palette[1]

\* C17 witness: a palette of a single control point sampled at index 1
C17_Witness ==
  /\ selPc = "palette"
  /\ Len(selArgs.list) = 1
  /\ selArgs.rand = Num(1)
  /\ selOut.color = selArgs.list[1]

(***************************************************************************)
(* Properties of the calls' effect on their inputs.                        *)
(***************************************************************************)
Deref(refs) == [i \in 1..Len(refs) |-> heap.objs[refs[i]]]

Range(f) == { f[i] : i \in DOMAIN f }

\* after a morph call the objects of both inputs hold what they held at the
\* call, and no object of the result is an object of an input
MorphLeavesInputs ==
  morphPc # "idle" =>
    LET listOf(system) == IF morphPc = "ifs" THEN system.maps ELSE system.transforms
    IN  /\ Deref(heap.a) = listOf(morphArgs.a)
        /\ Deref(heap.b) = listOf(morphArgs.b)
        /\ Deref(heap.out) = listOf(morphOut)
        /\ Range(heap.out) \cap (Range(heap.a) \cup Range(heap.b)) = {}

=============================================================================
